---- MODULE Spec2Model ----
(***************************************************************************)
(* Model of the refactoring operations of mcp-typescript-tools:            *)
(* renameFileOrFolder (services/file-rename), moveTypeScriptFile           *)
(* (services/file-move) and the control flow of the other public           *)
(* operations.                                                             *)
(*                                                                         *)
(* Paths and module specifiers are sequences of characters.  A character   *)
(* is a one-element string; the words "index" and "ts" are kept as one     *)
(* symbol each, so ".tsx" is <<".", "ts", "x">> and "utils2" is            *)
(* <<"u", "2">>.  Every string operation of the code (startsWith,          *)
(* endsWith, replace, the regular expressions, path.resolve,               *)
(* path.relative, path.dirname) works on these sequences.                  *)
(*                                                                         *)
(* The text of a file is the sequence of its module references: static     *)
(* imports, export ... from declarations and import() calls.               *)
(***************************************************************************)
EXTENDS Naturals, Integers, Sequences, FiniteSets, TLC

----------------------------------------------------------------------------
(* String primitives (JavaScript String / RegExp)                          *)

StartsWith(s, p) ==
  /\ Len(p) <= Len(s)
  /\ SubSeq(s, 1, Len(p)) = p

EndsWith(s, p) ==
  /\ Len(p) <= Len(s)
  /\ SubSeq(s, Len(s) - Len(p) + 1, Len(s)) = p

MinOf(S) == CHOOSE i \in S : \A j \in S : i <= j

FirstOrZero(S) == IF S = {} THEN 0 ELSE MinOf(S)

\* index of the first occurrence of p in s, 0 when there is none
IndexOf(s, p) ==
  FirstOrZero({ i \in 1..(Len(s) - Len(p) + 1) : SubSeq(s, i, i + Len(p) - 1) = p })

ReplaceAt(s, i, n, new) ==
  IF i = 0 THEN s
  ELSE SubSeq(s, 1, i - 1) \o new \o SubSeq(s, i + n, Len(s))

\* String.prototype.replace with a string pattern: the first occurrence only
ReplaceFirst(s, old, new) == ReplaceAt(s, IndexOf(s, old), Len(old), new)

DropLast(s, n) == SubSeq(s, 1, Len(s) - n)

\* the source extensions of /\.(ts|tsx|js|jsx)$/
SourceExts ==
  { <<".", "ts">>, <<".", "ts", "x">>, <<".", "j", "s">>, <<".", "j", "s", "x">> }

\* /\.(ts|tsx|js|jsx)$/.test(s)
HasSourceExt(s) == \E e \in SourceExts : EndsWith(s, e)

\* s.replace(/\.(ts|tsx|js|jsx)$/, '')
StripSourceExt(s) ==
  IF HasSourceExt(s)
  THEN DropLast(s, Len(CHOOSE e \in SourceExts : EndsWith(s, e)))
  ELSE s

\* the extensions of /\.(ts|tsx)$/
TsExts == { <<".", "ts">>, <<".", "ts", "x">> }

IsTsFile(p) == \E e \in TsExts : EndsWith(p, e)

\* s.replace(/\.(ts|tsx)$/, '')
StripTsExt(s) ==
  IF IsTsFile(s)
  THEN DropLast(s, Len(CHOOSE e \in TsExts : EndsWith(s, e)))
  ELSE s

SlashIndex == <<"/", "index">>

\* s.replace(/\/index$/, '')
StripIndexSuffix(s) == IF EndsWith(s, SlashIndex) THEN DropLast(s, 2) ELSE s

----------------------------------------------------------------------------
(* POSIX path module                                                       *)

RECURSIVE Split(_)
RECURSIVE SplitAt(_, _)
\* s.split('/')
Split(s) == SplitAt(s, IndexOf(s, <<"/">>))

SplitAt(s, i) ==
  IF i = 0 THEN << s >>
  ELSE << SubSeq(s, 1, i - 1) >> \o Split(SubSeq(s, i + 1, Len(s)))

RECURSIVE JoinSegs(_)
JoinSegs(segs) ==
  IF segs = << >> THEN << >>
  ELSE IF Len(segs) = 1 THEN segs[1]
  ELSE segs[1] \o <<"/">> \o JoinSegs(Tail(segs))

Dot    == <<".">>
DotDot == <<".", ".">>

RECURSIVE NormSegs(_, _)
\* normalisation of the segments of an absolute path: "" and "." are dropped,
\* ".." removes the segment before it (and is dropped at the root)
NormSegs(segs, acc) ==
  IF segs = << >> THEN acc
  ELSE IF Head(segs) = << >> \/ Head(segs) = Dot THEN NormSegs(Tail(segs), acc)
  ELSE IF Head(segs) = DotDot
       THEN NormSegs(Tail(segs), IF acc = << >> THEN acc ELSE DropLast(acc, 1))
       ELSE NormSegs(Tail(segs), Append(acc, Head(segs)))

AbsSegs(p) == NormSegs(Split(p), << >>)

FromSegs(segs) == <<"/">> \o JoinSegs(segs)

\* path.resolve(dir, p) for an absolute dir
PathResolve(dir, p) ==
  IF StartsWith(p, <<"/">>) THEN FromSegs(AbsSegs(p))
  ELSE FromSegs(AbsSegs(dir \o <<"/">> \o p))

\* path.resolve(p) of an absolute path
Normalize(p) == FromSegs(AbsSegs(p))

\* path.join(a, b) for an absolute a
PathJoin(a, b) == FromSegs(AbsSegs(a \o <<"/">> \o b))

DirOfSegs(segs) == IF segs = << >> THEN <<"/">> ELSE FromSegs(DropLast(segs, 1))

\* path.dirname of an absolute path
Dirname(p) == DirOfSegs(AbsSegs(p))

LastOfSegs(segs) == IF segs = << >> THEN << >> ELSE segs[Len(segs)]

\* path.basename of an absolute path
Basename(p) == LastOfSegs(AbsSegs(p))

RECURSIVE CommonLen(_, _)
CommonLen(a, b) ==
  IF a = << >> \/ b = << >> THEN 0
  ELSE IF Head(a) = Head(b) THEN 1 + CommonLen(Tail(a), Tail(b))
  ELSE 0

RelFrom(f, t, c) ==
  JoinSegs([ i \in 1..(Len(f) - c) |-> DotDot ] \o SubSeq(t, c + 1, Len(t)))

RelOfSegs(f, t) == RelFrom(f, t, CommonLen(f, t))

\* path.relative(from, to) of two absolute paths
PathRelative(from, to) == RelOfSegs(AbsSegs(from), AbsSegs(to))

----------------------------------------------------------------------------
(* Bounds and the universe of paths                                        *)

\* the consumer main.ts holds between 1 and MaxRefs references
MaxRefs == 2

Root == <<"/">>

\* directories: utils, utils2, lib, helpers
DirU  == <<"/", "u">>
DirU2 == <<"/", "u", "2">>
DirL  == <<"/", "l">>
DirH  == <<"/", "h">>

\* files: utils/index.ts, utils/a.ts, utils2/c.ts, main.ts
FileIndex == <<"/", "u", "/", "index", ".", "ts">>
FileA     == <<"/", "u", "/", "a", ".", "ts">>
FileC     == <<"/", "u", "2", "/", "c", ".", "ts">>
FileMain  == <<"/", "m", ".", "ts">>
\* a path that is never on disk
FileGone  == <<"/", "u", "/", "z", ".", "ts">>

Kinds == { "import", "export", "dynamic" }

Ref(k, s) == [ kind |-> k, spec |-> s ]

\* './u', './u/index', './u/a', './u/a.ts'
SpecDirU   == <<".", "/", "u">>
SpecUIndex == <<".", "/", "u", "/", "index">>
SpecUA     == <<".", "/", "u", "/", "a">>
SpecUAts   == <<".", "/", "u", "/", "a", ".", "ts">>

MainSpecs == << SpecDirU, SpecUIndex, SpecUA, SpecUAts >>

KindSeq == << "import", "export", "dynamic" >>

\* the references main.ts can hold, numbered
RefAt(n) ==
  Ref(KindSeq[((n - 1) \div Len(MainSpecs)) + 1],
      MainSpecs[((n - 1) % Len(MainSpecs)) + 1])

Ascending(c) == \A i, j \in DOMAIN c : i < j => c[i] <= c[j]

\* the texts main.ts can start with.  Every loop over the references of a
\* file treats each reference on its own, so one text stands for all the
\* texts that hold the same references in another order.
MainTexts ==
  UNION { { [ i \in 1..n |-> RefAt(c[i]) ] :
              c \in { d \in [ 1..n -> 1..(Len(KindSeq) * Len(MainSpecs)) ] :
                        Ascending(d) } } :
          n \in 1..MaxRefs }

\* utils2/c.ts: import ... from '../u/a'
TextC == << Ref("import", <<".", ".", "/", "u", "/", "a">>) >>

\* utils/a.ts: import ... from './index'; import ... from '../m'
TextA == << Ref("import", <<".", "/", "index">>),
            Ref("import", <<".", ".", "/", "m">>) >>

\* pkg.ts holds only specifiers that do not start with '.':
\* a package 'x', a path-mapped alias '@/u/a', an absolute path '/u/a'
FileP == <<"/", "p", ".", "ts">>

TextP == << Ref("import", <<"x">>),
            Ref("import", <<"@", "/", "u", "/", "a">>),
            Ref("import", <<"/", "u", "/", "a">>) >>

\* guard.ts imports the sibling of utils: import ... from './u2/c'
FileG == <<"/", "g", ".", "ts">>

TextG == << Ref("import", <<".", "/", "u", "2", "/", "c">>) >>

\* lib/helpers
DirLH == <<"/", "l", "/", "h">>

\* destinations of a directory rename: helpers, lib/helpers, helpers/k
DirDests == { DirH, DirLH, <<"/", "h", "/", "k">> }

\* helpers/index.ts
FileHIndex == <<"/", "h", "/", "index", ".", "ts">>

\* destinations of a file rename or move:
\* helpers/index.ts, lib/index.ts, utils/b.ts, lib/b.tsx, main.ts
FileDests ==
  { FileHIndex,
    <<"/", "l", "/", "index", ".", "ts">>,
    <<"/", "u", "/", "b", ".", "ts">>,
    <<"/", "l", "/", "b", ".", "ts", "x">>,
    FileMain }

FileSources == { FileIndex, FileA, FileGone }

\* the operations that take one file path
FileOps == { "renameSymbol", "repair", "analyze", "checkDeletable",
             "optimize", "visualize" }

NoCall == [ op |-> "none" ]

----------------------------------------------------------------------------
(* State                                                                   *)

VARIABLES
  files,      \* the files on disk (absolute paths)
  dirs,       \* the directories on disk
  text,       \* text[f]: the references written in file f on disk
  pc,         \* position of the running operation
  call,       \* the operation and its options
  pre,        \* the disk as it was when the operation was called
  mem,        \* the project snapshot: path -> references held in memory
  unsaved,    \* snapshot files changed in memory and not yet saved
  queued,     \* file deletions queued in the snapshot's file system
  updated,    \* updatedFiles of the result under construction
  result,     \* "none", "ok", "fail" (a result record) or "thrown"
  built,      \* a project snapshot was constructed
  cleanups,   \* number of cleanup steps run
  log,        \* the writes made to the disk, in order
  exports,    \* exports[f]: the names file f exports, and whether it has a default export
  out,        \* the result record of the running operation
  hist        \* the result records of the operations that have returned

\* the state that only the repair, check-deletable, optimization and
\* visualization operations use
ext == << exports, out, hist >>

vars == << files, dirs, text, pc, call, pre, mem, unsaved, queued, updated,
           result, built, cleanups, log, exports, out, hist >>

Exists(fs, ds, p) == p \in fs \/ p \in ds

----------------------------------------------------------------------------
(* services/file-rename: resolution and rewriting of a specifier           *)

\* the value of an optional argument that was not passed
Undefined == << >>

\* ['', '.ts', '.tsx', '.js', '.jsx', '/index.ts', '/index.tsx', '/index.js', '/index.jsx']
RenameProbes ==
  << << >>,
     <<".", "ts">>, <<".", "ts", "x">>, <<".", "j", "s">>, <<".", "j", "s", "x">>,
     <<"/", "index", ".", "ts">>, <<"/", "index", ".", "ts", "x">>,
     <<"/", "index", ".", "j", "s">>, <<"/", "index", ".", "j", "s", "x">> >>

ProbeAt(resolvedPath, hits) ==
  IF hits = {} THEN resolvedPath ELSE resolvedPath \o RenameProbes[MinOf(hits)]

\* the loop of resolveImportPath: the first probe that statSync finds (a
\* file or a directory), the bare resolved path when there is none
FirstProbe(fs, ds, resolvedPath) ==
  ProbeAt(resolvedPath,
          { i \in 1..Len(RenameProbes) : Exists(fs, ds, resolvedPath \o RenameProbes[i]) })

\* resolveImportPath(fromFile, importPath) on the disk (fs, ds)
resolveImportPath(fs, ds, fromFile, importPath) ==
  IF ~StartsWith(importPath, Dot) THEN importPath
  ELSE FirstProbe(fs, ds, PathResolve(Dirname(fromFile), importPath))

\* relativePath.startsWith('.') ? relativePath : './' + relativePath
DotSlash(rel) == IF StartsWith(rel, Dot) THEN rel ELSE <<".", "/">> \o rel

\* a rewriter that removes the extension whatever the original import had
StripExtensionAlways(originalImport, rel) == StripSourceExt(rel)

\* extensions are removed if they were not in the original import
KeepExtension(originalImport, rel) ==
  IF HasSourceExt(originalImport) THEN rel ELSE StripSourceExt(rel)

\* a rewriter that removes the /index suffix whatever the original import had
StripIndexAlways(originalImport, rel) == StripIndexSuffix(rel)

\* the /index suffix is removed if it was not in the original import
KeepIndex(originalImport, rel) ==
  IF EndsWith(originalImport, SlashIndex) THEN rel ELSE StripIndexSuffix(rel)

FromFileOr(fromFile, newFromFilePath) ==
  IF newFromFilePath = Undefined THEN fromFile ELSE newFromFilePath

\* calculateNewImportPath(fromFile, oldAbsPath, newAbsPath, originalImport, newFromFilePath?)
calculateNewImportPath(fs, ds, fromFile, oldAbsPath, newAbsPath, originalImport, newFromFilePath) ==
  IF ~StartsWith(originalImport, Dot) THEN originalImport
  ELSE KeepIndex(originalImport,
         KeepExtension(originalImport,
           DotSlash(PathRelative(
             Dirname(FromFileOr(fromFile, newFromFilePath)),
             ReplaceFirst(resolveImportPath(fs, ds, fromFile, originalImport),
                          oldAbsPath, newAbsPath)))))

\* the reference kinds the update loops visit: import declarations, export
\* declarations with a module specifier, import() calls with a string literal
RenameKinds == { "import", "export", "dynamic" }

\* the test of updateImportsForFile on a resolved path
FileMatch(resolvedPath, oldAbsPath) ==
  \/ resolvedPath = oldAbsPath
  \/ StartsWith(resolvedPath, oldAbsPath \o <<"/">>)

\* the test of updateImportsForDirectory on a resolved path
DirectoryMatch(resolvedPath, oldAbsPath) == StartsWith(resolvedPath, oldAbsPath)

\* newFilePath of updateImportsForDirectory
NewFilePath(filePath, oldAbsPath, newAbsPath) ==
  IF StartsWith(filePath, oldAbsPath)
  THEN ReplaceFirst(filePath, oldAbsPath, newAbsPath)
  ELSE Undefined

\* updateImportsForFile on one reference of file filePath
FileRef(fs, ds, filePath, r, oldAbsPath, newAbsPath) ==
  IF /\ r.kind \in RenameKinds
     /\ FileMatch(resolveImportPath(fs, ds, filePath, r.spec), oldAbsPath)
  THEN [ r EXCEPT !.spec = calculateNewImportPath(fs, ds, filePath, oldAbsPath,
                                                  newAbsPath, r.spec, Undefined) ]
  ELSE r

\* updateImportsForDirectory on one reference of file filePath
DirectoryRef(fs, ds, filePath, r, oldAbsPath, newAbsPath) ==
  IF /\ r.kind \in RenameKinds
     /\ DirectoryMatch(resolveImportPath(fs, ds, filePath, r.spec), oldAbsPath)
  THEN [ r EXCEPT !.spec = calculateNewImportPath(fs, ds, filePath, oldAbsPath,
                             newAbsPath, r.spec,
                             NewFilePath(filePath, oldAbsPath, newAbsPath)) ]
  ELSE r

\* updateImportsForFile: the references of one source file after the loops
updateImportsForFile(fs, ds, filePath, refs, oldAbsPath, newAbsPath) ==
  [ i \in DOMAIN refs |-> FileRef(fs, ds, filePath, refs[i], oldAbsPath, newAbsPath) ]

\* updateImportsForDirectory: the references of one source file after the loops
updateImportsForDirectory(fs, ds, filePath, refs, oldAbsPath, newAbsPath) ==
  [ i \in DOMAIN refs |-> DirectoryRef(fs, ds, filePath, refs[i], oldAbsPath, newAbsPath) ]

\* fileModified at the end of the loops over one source file
FileModified(fs, ds, filePath, refs, oldAbsPath, isDirectory) ==
  \E i \in DOMAIN refs :
    /\ refs[i].kind \in RenameKinds
    /\ IF isDirectory
       THEN DirectoryMatch(resolveImportPath(fs, ds, filePath, refs[i].spec), oldAbsPath)
       ELSE FileMatch(resolveImportPath(fs, ds, filePath, refs[i].spec), oldAbsPath)

\* the files the globs '**/*.ts', '**/*.tsx' (or the tsconfig) load
ProjectFiles(fs) == { f \in fs : IsTsFile(f) }

----------------------------------------------------------------------------
(* fs.rename                                                               *)

Under(p, root) == p = root \/ StartsWith(p, root \o <<"/">>)

ReRoot(p, src, dst) == dst \o SubSeq(p, Len(src) + 1, Len(p))

\* rename(2) succeeds: the source exists, the parent of the destination is a
\* directory, a directory is not moved into itself, a file replaces a file
\* and a directory replaces an empty directory only
FsRenameOk(fs, ds, src, dst) ==
  /\ Exists(fs, ds, src)
  /\ Dirname(dst) \in ds
  /\ ~(src \in ds /\ Under(dst, src))
  /\ src \in fs => dst \notin ds
  /\ src \in ds => /\ dst \notin fs
                   /\ \A p \in fs \cup ds : Under(p, dst) => p = dst

FsRenameFiles(fs, src, dst) ==
  { f \in fs : ~Under(f, src) /\ f # dst }
    \cup { ReRoot(f, src, dst) : f \in { g \in fs : Under(g, src) } }

FsRenameDirs(ds, src, dst) ==
  { d \in ds : ~Under(d, src) }
    \cup { ReRoot(d, src, dst) : d \in { g \in ds : Under(g, src) } }

FsRenameText(fs, tx, src, dst) ==
  [ f \in FsRenameFiles(fs, src, dst) |->
      IF \E g \in fs : Under(g, src) /\ ReRoot(g, src, dst) = f
      THEN tx[CHOOSE g \in fs : Under(g, src) /\ ReRoot(g, src, dst) = f]
      ELSE tx[f] ]

----------------------------------------------------------------------------
(* services/file-move: rewriting of a specifier                            *)

IndexTs  == <<"index", ".", "ts">>
IndexTsx == <<"index", ".", "ts", "x">>

\* possiblePaths of updateImportPaths
PossiblePaths(resolvedPath) ==
  { resolvedPath,
    resolvedPath \o <<".", "ts">>,
    resolvedPath \o <<".", "ts", "x">>,
    PathJoin(resolvedPath, IndexTs),
    PathJoin(resolvedPath, IndexTsx) }

\* the declarations updateImportPaths visits: imports and exports
MoveKinds == { "import", "export" }

\* does updateImportPaths rewrite reference r of file filePath?
MoveTouches(filePath, r, oldPath) ==
  /\ r.kind \in MoveKinds
  /\ StartsWith(r.spec, Dot)
  /\ oldPath \in PossiblePaths(PathResolve(Dirname(filePath), r.spec))

\* createOptimalImportPath after the extension was removed from toPath;
\* fs is read by existsSync
OptimalFor(fs, fromDir, targetPath) ==
  IF Basename(targetPath) = <<"index">>
  THEN DotSlash(PathRelative(fromDir, Dirname(targetPath)))
  ELSE IF \/ PathJoin(Dirname(targetPath), IndexTs) \in fs
          \/ PathJoin(Dirname(targetPath), IndexTsx) \in fs
       THEN DotSlash(PathRelative(fromDir, targetPath))
       ELSE DotSlash(PathRelative(fromDir, targetPath))

\* createOptimalImportPath(fromDir, toPath)
createOptimalImportPath(fs, fromDir, toPath) == OptimalFor(fs, fromDir, StripTsExt(toPath))

\* updateImportPaths: the references of one source file after the loops
updateImportPaths(fs, filePath, refs, oldPath, newPath) ==
  [ i \in DOMAIN refs |->
      IF MoveTouches(filePath, refs[i], oldPath)
      THEN [ refs[i] EXCEPT !.spec = createOptimalImportPath(fs, Dirname(filePath), newPath) ]
      ELSE refs[i] ]

\* hasChanges at the end of the loops over one source file
HasChanges(filePath, refs, oldPath) ==
  \E i \in DOMAIN refs : MoveTouches(filePath, refs[i], oldPath)

RECURSIVE Ancestors(_)
\* fs.mkdir(dir, { recursive: true }): dir and its ancestors
Ancestors(dir) == IF dir = Root THEN { Root } ELSE { dir } \cup Ancestors(Dirname(dir))

(* sourceFile.move(destination) of the AST library: the file changes its    *)
(* path in the snapshot, the deletion of the old path is queued, and the    *)
(* relative specifiers that the library resolves to the moved file (in      *)
(* other files) or from the moved file (when its directory changes) are     *)
(* set to the extension-less relative path of their target.                 *)

LibOrder(resolvedPath) ==
  << resolvedPath,
     resolvedPath \o <<".", "ts">>,
     resolvedPath \o <<".", "ts", "x">>,
     PathJoin(resolvedPath, IndexTs),
     PathJoin(resolvedPath, IndexTsx) >>

LibPick(order, hits) == IF hits = {} THEN Undefined ELSE order[MinOf(hits)]

LibFirst(proj, order) == LibPick(order, { i \in 1..Len(order) : order[i] \in proj })

\* the project file a relative specifier resolves to, Undefined if none
LibResolve(proj, filePath, spec) ==
  IF ~StartsWith(spec, Dot) THEN Undefined
  ELSE LibFirst(proj, LibOrder(PathResolve(Dirname(filePath), spec)))

LibSpecifierFor(fromDir, targetPath) ==
  IF Basename(targetPath) = <<"index">>
  THEN DotSlash(PathRelative(fromDir, Dirname(targetPath)))
  ELSE DotSlash(PathRelative(fromDir, targetPath))

\* the module specifier the library writes from directory fromDir to toPath
LibSpecifier(fromDir, toPath) == LibSpecifierFor(fromDir, StripTsExt(toPath))

\* a reference of another file f
LibOtherRef(proj, f, r, oldPath, newPath) ==
  IF LibResolve(proj, f, r.spec) = oldPath
  THEN [ r EXCEPT !.spec = LibSpecifier(Dirname(f), newPath) ]
  ELSE r

LibOwnSpec(r, target, oldPath, newPath) ==
  IF Dirname(oldPath) # Dirname(newPath) /\ target # Undefined /\ target # oldPath
  THEN [ r EXCEPT !.spec = LibSpecifier(Dirname(newPath), target) ]
  ELSE r

\* a reference of the moved file
LibOwnRef(proj, r, oldPath, newPath) ==
  LibOwnSpec(r, LibResolve(proj, oldPath, r.spec), oldPath, newPath)

\* the snapshot after sourceFile.move(newPath)
LibMove(m, oldPath, newPath) ==
  [ f \in (DOMAIN m \ { oldPath }) \cup { newPath } |->
      IF f = newPath
      THEN [ i \in DOMAIN m[oldPath] |-> LibOwnRef(DOMAIN m, m[oldPath][i], oldPath, newPath) ]
      ELSE [ i \in DOMAIN m[f] |-> LibOtherRef(DOMAIN m, f, m[f][i], oldPath, newPath) ] ]

----------------------------------------------------------------------------
(* Initial states: a project on disk, no operation running                 *)

BaseDirs  == { Root, DirU, DirU2, DirL }
BaseFiles == { FileIndex, FileA, FileC, FileMain, FileP, FileG }

InitText(t) ==
  [ f \in BaseFiles |->
      IF f = FileMain THEN t
      ELSE IF f = FileC THEN TextC
      ELSE IF f = FileA THEN TextA
      ELSE IF f = FileP THEN TextP
      ELSE IF f = FileG THEN TextG
      ELSE << >> ]

Init ==
  /\ files = BaseFiles
  /\ \E withHelpers \in BOOLEAN :
       dirs = IF withHelpers THEN BaseDirs \cup { DirH } ELSE BaseDirs
  /\ \E t \in MainTexts : text = InitText(t)
  /\ pc = "idle"
  /\ call = NoCall
  /\ pre = [ files |-> {}, dirs |-> {}, text |-> << >> ]
  /\ mem = << >>
  /\ unsaved = {}
  /\ queued = {}
  /\ updated = {}
  /\ result = "none"
  /\ built = FALSE
  /\ cleanups = 0
  /\ log = << >>
  /\ exports = << >>
  /\ out = NoCall
  /\ hist = << >>

Snapshot == [ files |-> files, dirs |-> dirs, text |-> text ]

\* the source files of a project loaded from the disk
Loaded(fs, tx) == [ f \in ProjectFiles(fs) |-> tx[f] ]

----------------------------------------------------------------------------
(* renameFileOrFolder                                                      *)

CallRename ==
  /\ pc = "idle"
  /\ \E src \in { DirU } \cup FileSources, upd \in BOOLEAN :
       \E dst \in (IF src = DirU THEN DirDests ELSE FileDests) :
         call' = [ op |-> "rename", source |-> src, destination |-> dst,
                   updateImports |-> upd ]
  /\ pre' = Snapshot
  /\ pc' = "rename_stat"
  /\ UNCHANGED << files, dirs, text, mem, unsaved, queued, updated, result,
                  built, cleanups, log >>
  /\ UNCHANGED ext

\* the snapshot after updateImportsForDirectory or updateImportsForFile
RenameEdited(fs, ds, tx, oldAbsPath, newAbsPath, isDirectory) ==
  [ f \in ProjectFiles(fs) |->
      IF isDirectory
      THEN updateImportsForDirectory(fs, ds, f, tx[f], oldAbsPath, newAbsPath)
      ELSE updateImportsForFile(fs, ds, f, tx[f], oldAbsPath, newAbsPath) ]

\* updatedFiles after the update
RenameModified(fs, ds, tx, oldAbsPath, isDirectory) ==
  { f \in ProjectFiles(fs) : FileModified(fs, ds, f, tx[f], oldAbsPath, isDirectory) }

\* the two fs.stat checks; then the project is constructed and the update
\* loops edit the snapshot in memory
RenameLoad ==
  /\ pc = "rename_stat"
  /\ IF ~Exists(files, dirs, call.source) \/ Exists(files, dirs, call.destination)
     THEN /\ result' = "fail"
          /\ pc' = "rename_finally"
          /\ UNCHANGED << mem, unsaved, updated, built >>
     ELSE /\ built' = TRUE
          /\ mem' = IF call.updateImports
                    THEN RenameEdited(files, dirs, text, Normalize(call.source),
                                      Normalize(call.destination), call.source \in dirs)
                    ELSE Loaded(files, text)
          /\ unsaved' = IF call.updateImports
                        THEN RenameModified(files, dirs, text, Normalize(call.source),
                                            call.source \in dirs)
                        ELSE {}
          /\ updated' = unsaved'
          /\ pc' = "rename_save"
          /\ UNCHANGED result
  /\ UNCHANGED << files, dirs, text, call, pre, queued, cleanups, log >>
  /\ UNCHANGED ext

\* project.save(): the unsaved source files are written, in any order
RenameSave ==
  /\ pc = "rename_save"
  /\ \E f \in unsaved :
       /\ text' = [ text EXCEPT ![f] = mem[f] ]
       /\ unsaved' = unsaved \ { f }
       /\ log' = Append(log, [ ev |-> "save", path |-> f ])
  /\ UNCHANGED << files, dirs, pc, call, pre, mem, queued, updated, result,
                  built, cleanups >>
  /\ UNCHANGED ext

\* fs.rename(sourcePath, destinationPath), after project.save() has returned
RenameFs ==
  /\ pc = "rename_save"
  /\ unsaved = {}
  /\ IF FsRenameOk(files, dirs, call.source, call.destination)
     THEN /\ files' = FsRenameFiles(files, call.source, call.destination)
          /\ dirs' = FsRenameDirs(dirs, call.source, call.destination)
          /\ text' = FsRenameText(files, text, call.source, call.destination)
          /\ log' = Append(log, [ ev |-> "rename", path |-> call.source ])
          /\ result' = "ok"
     ELSE /\ result' = "fail"
          /\ UNCHANGED << files, dirs, text, log >>
  /\ pc' = "rename_finally"
  /\ UNCHANGED << call, pre, mem, unsaved, queued, updated, built, cleanups >>
  /\ UNCHANGED ext

\* the finally block: cleanup of the project, if one was constructed
RenameFinally ==
  /\ pc = "rename_finally"
  /\ cleanups' = IF built THEN cleanups + 1 ELSE cleanups
  /\ pc' = "done"
  /\ UNCHANGED << files, dirs, text, call, pre, mem, unsaved, queued, updated,
                  result, built, log >>
  /\ UNCHANGED ext

----------------------------------------------------------------------------
(* moveTypeScriptFile                                                      *)

CallMove ==
  /\ pc = "idle"
  /\ \E src \in FileSources, dst \in FileDests, upd \in BOOLEAN :
       call' = [ op |-> "move", source |-> src, destination |-> dst,
                 updateImports |-> upd ]
  /\ pre' = Snapshot
  /\ pc' = "move_load"
  /\ UNCHANGED << files, dirs, text, mem, unsaved, queued, updated, result,
                  built, cleanups, log >>
  /\ UNCHANGED ext

\* the snapshot after updateImportPaths
MoveEdited(fs, tx, oldPath, newPath) ==
  [ f \in ProjectFiles(fs) |-> updateImportPaths(fs, f, tx[f], oldPath, newPath) ]

\* updatedFiles of updateImportPaths
MoveChanged(fs, tx, oldPath) ==
  { f \in ProjectFiles(fs) : HasChanges(f, tx[f], oldPath) }

\* the project is constructed and the source file is added to it (a missing
\* file makes addSourceFileAtPath throw); with updateImports the project
\* files are added and updateImportPaths edits the snapshot in memory
MoveLoad ==
  /\ pc = "move_load"
  /\ built' = TRUE
  /\ IF Normalize(call.source) \notin files
     THEN /\ result' = "fail"
          /\ pc' = "move_finally"
          /\ UNCHANGED << mem, unsaved, updated >>
     ELSE /\ mem' = IF call.updateImports
                    THEN MoveEdited(files, text, Normalize(call.source),
                                    Normalize(call.destination))
                    ELSE [ f \in { Normalize(call.source) } |-> text[f] ]
          /\ unsaved' = IF call.updateImports
                        THEN MoveChanged(files, text, Normalize(call.source))
                        ELSE {}
          /\ updated' = unsaved'
          /\ pc' = "move_mkdir"
          /\ UNCHANGED result
  /\ UNCHANGED << files, dirs, text, call, pre, queued, cleanups, log >>
  /\ UNCHANGED ext

\* fs.mkdir(path.dirname(absoluteDestination), { recursive: true })
MoveMkdir ==
  /\ pc = "move_mkdir"
  /\ dirs' = dirs \cup Ancestors(Dirname(Normalize(call.destination)))
  /\ pc' = "move_file"
  /\ UNCHANGED << files, text, call, pre, mem, unsaved, queued, updated, result,
                  built, cleanups, log >>
  /\ UNCHANGED ext

\* updateImports: sourceFile.move(absoluteDestination), in the snapshot only;
\* it throws when a file is already at the destination
MoveInMemory ==
  /\ pc = "move_file"
  /\ call.updateImports
  /\ IF \/ Exists(files, dirs, Normalize(call.destination))
        \/ Normalize(call.destination) \in DOMAIN mem
     THEN /\ result' = "fail"
          /\ pc' = "move_finally"
          /\ UNCHANGED << mem, unsaved, queued >>
     ELSE /\ mem' = LibMove(mem, Normalize(call.source), Normalize(call.destination))
          /\ unsaved' = { f \in DOMAIN mem' :
                            \/ f = Normalize(call.destination)
                            \/ f \in unsaved
                            \/ mem'[f] # mem[f] }
          /\ queued' = { Normalize(call.source) }
          /\ pc' = "move_flush"
          /\ UNCHANGED result
  /\ UNCHANGED << files, dirs, text, call, pre, updated, built, cleanups, log >>
  /\ UNCHANGED ext

\* updateImports false: fs.rename(absoluteSource, absoluteDestination)
MoveFsRename ==
  /\ pc = "move_file"
  /\ ~call.updateImports
  /\ IF FsRenameOk(files, dirs, Normalize(call.source), Normalize(call.destination))
     THEN /\ files' = FsRenameFiles(files, Normalize(call.source), Normalize(call.destination))
          /\ dirs' = FsRenameDirs(dirs, Normalize(call.source), Normalize(call.destination))
          /\ text' = FsRenameText(files, text, Normalize(call.source),
                                  Normalize(call.destination))
          /\ log' = Append(log, [ ev |-> "rename", path |-> Normalize(call.source) ])
          /\ result' = "ok"
     ELSE /\ result' = "fail"
          /\ UNCHANGED << files, dirs, text, log >>
  /\ pc' = "move_finally"
  /\ UNCHANGED << call, pre, mem, unsaved, queued, updated, built, cleanups >>
  /\ UNCHANGED ext

\* project.save(), first part: the queued deletion of the old path is
\* applied to the disk
MoveFlush ==
  /\ pc = "move_flush"
  /\ files' = files \ queued
  /\ text' = [ f \in files \ queued |-> text[f] ]
  /\ log' = Append(log, [ ev |-> "rename", path |-> Normalize(call.source) ])
  /\ queued' = {}
  /\ pc' = "move_save"
  /\ UNCHANGED << dirs, call, pre, mem, unsaved, updated, result, built, cleanups >>
  /\ UNCHANGED ext

\* project.save(), second part: the unsaved source files are written, in
\* any order; the moved file appears at its new path
MoveSave ==
  /\ pc = "move_save"
  /\ \E f \in unsaved :
       /\ files' = files \cup { f }
       /\ text' = [ g \in files \cup { f } |-> IF g = f THEN mem[f] ELSE text[g] ]
       /\ unsaved' = unsaved \ { f }
       /\ log' = Append(log, [ ev |-> "save", path |-> f ])
  /\ UNCHANGED << dirs, pc, call, pre, mem, queued, updated, result, built,
                  cleanups >>
  /\ UNCHANGED ext

\* project.save() has returned: the success record is built
MoveSaved ==
  /\ pc = "move_save"
  /\ unsaved = {}
  /\ result' = "ok"
  /\ pc' = "move_finally"
  /\ UNCHANGED << files, dirs, text, call, pre, mem, unsaved, queued, updated,
                  built, cleanups, log >>
  /\ UNCHANGED ext

\* the finally block: cleanupProject(project)
MoveFinally ==
  /\ pc = "move_finally"
  /\ cleanups' = IF built THEN cleanups + 1 ELSE cleanups
  /\ pc' = "done"
  /\ UNCHANGED << files, dirs, text, call, pre, mem, unsaved, queued, updated,
                  result, built, log >>
  /\ UNCHANGED ext

----------------------------------------------------------------------------
(* The operations that take one file path.  Their analyses and the         *)
(* identifiers they edit are outside the state (a file's text is its list  *)
(* of module references); the calls enumerated here are those that leave   *)
(* the module references alone: repair as a dry run, optimization with     *)
(* every pass switched off, check-deletable without generated files.       *)

\* hasTsConfig: a tsconfig.json is at process.cwd(); hasSymbol: findSymbol
\* finds the symbol to rename
CallFileOp ==
  /\ pc = "idle"
  /\ \E o \in FileOps, p \in { FileMain, FileGone }, cfg \in BOOLEAN, sym \in BOOLEAN :
       /\ (o \notin { "renameSymbol", "analyze" } => cfg)
       /\ (o # "renameSymbol" => sym)
       /\ call' = [ op |-> o, filePath |-> p, hasTsConfig |-> cfg, hasSymbol |-> sym ]
       /\ pc' = o
  /\ pre' = Snapshot
  /\ UNCHANGED << files, dirs, text, mem, unsaved, queued, updated, result,
                  built, cleanups, log >>
  /\ UNCHANGED ext

\* renameSymbol: one try/catch around everything, no finally
RenameSymbolRun ==
  /\ pc = "renameSymbol"
  /\ built' = call.hasTsConfig
  /\ result' = IF call.hasTsConfig /\ call.filePath \in files /\ call.hasSymbol
               THEN "ok" ELSE "fail"
  /\ pc' = "done"
  /\ UNCHANGED << files, dirs, text, call, pre, mem, unsaved, queued, updated,
                  cleanups, log >>
  /\ UNCHANGED ext

\* analyzeDependencies: one try/catch around everything, no finally
AnalyzeRun ==
  /\ pc = "analyze"
  /\ built' = call.hasTsConfig
  /\ result' = IF call.hasTsConfig /\ call.filePath \in files THEN "ok" ELSE "fail"
  /\ pc' = "done"
  /\ UNCHANGED << files, dirs, text, call, pre, mem, unsaved, queued, updated,
                  cleanups, log >>
  /\ UNCHANGED ext

\* repairImportPaths: the project is constructed and the file is added
\* before the try block; addSourceFileAtPath throws for a missing file
RepairRun ==
  /\ pc = "repair"
  /\ built' = TRUE
  /\ result' = IF call.filePath \in files THEN "ok" ELSE "thrown"
  /\ pc' = "done"
  /\ UNCHANGED << files, dirs, text, call, pre, mem, unsaved, queued, updated,
                  cleanups, log >>
  /\ UNCHANGED ext

\* checkDeletable / analyzeFileDeletability: a missing file is reported
\* before the project is constructed
CheckDeletableRun ==
  /\ pc = "checkDeletable"
  /\ built' = (call.filePath \in files)
  /\ result' = IF call.filePath \in files THEN "ok" ELSE "fail"
  /\ pc' = "checkDeletable_finally"
  /\ UNCHANGED << files, dirs, text, call, pre, mem, unsaved, queued, updated,
                  cleanups, log >>
  /\ UNCHANGED ext

CheckDeletableFinally ==
  /\ pc = "checkDeletable_finally"
  /\ cleanups' = IF built THEN cleanups + 1 ELSE cleanups
  /\ pc' = "done"
  /\ UNCHANGED << files, dirs, text, call, pre, mem, unsaved, queued, updated,
                  result, built, log >>
  /\ UNCHANGED ext

\* optimizeImports: the project is constructed, then addSourceFileAtPath
\* throws for a missing file, inside the try block
OptimizeRun ==
  /\ pc = "optimize"
  /\ built' = TRUE
  /\ result' = IF call.filePath \in files THEN "ok" ELSE "fail"
  /\ pc' = "optimize_finally"
  /\ UNCHANGED << files, dirs, text, call, pre, mem, unsaved, queued, updated,
                  cleanups, log >>
  /\ UNCHANGED ext

OptimizeFinally ==
  /\ pc = "optimize_finally"
  /\ cleanups' = IF built THEN cleanups + 1 ELSE cleanups
  /\ pc' = "done"
  /\ UNCHANGED << files, dirs, text, call, pre, mem, unsaved, queued, updated,
                  result, built, log >>
  /\ UNCHANGED ext

\* visualizeDependencies: a root path without files gives an empty graph
VisualizeRun ==
  /\ pc = "visualize"
  /\ built' = TRUE
  /\ result' = "ok"
  /\ pc' = "visualize_finally"
  /\ UNCHANGED << files, dirs, text, call, pre, mem, unsaved, queued, updated,
                  cleanups, log >>
  /\ UNCHANGED ext

VisualizeFinally ==
  /\ pc = "visualize_finally"
  /\ cleanups' = IF built THEN cleanups + 1 ELSE cleanups
  /\ pc' = "done"
  /\ UNCHANGED << files, dirs, text, call, pre, mem, unsaved, queued, updated,
                  result, built, log >>
  /\ UNCHANGED ext

----------------------------------------------------------------------------
(* Specification                                                           *)

Next ==
  \/ CallRename
  \/ RenameLoad
  \/ RenameSave
  \/ RenameFs
  \/ RenameFinally
  \/ CallMove
  \/ MoveLoad
  \/ MoveMkdir
  \/ MoveInMemory
  \/ MoveFsRename
  \/ MoveFlush
  \/ MoveSave
  \/ MoveSaved
  \/ MoveFinally
  \/ CallFileOp
  \/ RenameSymbolRun
  \/ AnalyzeRun
  \/ RepairRun
  \/ CheckDeletableRun
  \/ CheckDeletableFinally
  \/ OptimizeRun
  \/ OptimizeFinally
  \/ VisualizeRun
  \/ VisualizeFinally

Spec == Init /\ [][Next]_vars

----------------------------------------------------------------------------
(* Properties of the move and rename operations                            *)

\* utils/b.ts and the specifiers './u/b', './u/b.ts'
FileB    == <<"/", "u", "/", "b", ".", "ts">>
SpecUB   == <<".", "/", "u", "/", "b">>
SpecUBts == <<".", "/", "u", "/", "b", ".", "ts">>

\* renameFileOrFolder or moveTypeScriptFile has returned
MovedOrRenamed == pc = "done" /\ call.op \in { "rename", "move" }

\* renameFileOrFolder has returned success after it updated the imports
RenameDone ==
  pc = "done" /\ call.op = "rename" /\ result = "ok" /\ call.updateImports

\* moveTypeScriptFile has returned success after it updated the imports
MoveDone ==
  pc = "done" /\ call.op = "move" /\ result = "ok" /\ call.updateImports

\* where a path of the disk before the call is after a successful call
After(p) ==
  IF Under(p, call.source) THEN ReRoot(p, call.source, call.destination) ELSE p

\* the specifier of reference i of file f before the call and after it
SpecBefore(f, i) == pre.text[f][i].spec
SpecAfter(f, i)  == text[After(f)][i].spec

\* what reference i of file f resolved to before the call
ResolvedBefore(f, i) == resolveImportPath(pre.files, pre.dirs, f, SpecBefore(f, i))

RoundTripAt(A, i, B) ==
  (/\ StartsWith(SpecBefore(A, i), Dot)
   /\ B \in pre.files
   /\ Under(B, call.source))
  => resolveImportPath(files, dirs, A, SpecAfter(A, i))
       = ReRoot(B, call.source, call.destination)

\* C1: round trip of a rename.  After renameFileOrFolder(old -> new) with
\* updateImports, for every file A outside the moved path and every relative
\* specifier of A that resolved to a file B at or under old, resolving the
\* rewritten specifier from A yields B's new path (old prefix replaced by new).
C1_RoundTrip ==
  RenameDone =>
    \A A \in ProjectFiles(pre.files) :
      ~Under(A, call.source) =>
        \A i \in DOMAIN pre.text[A] : RoundTripAt(A, i, ResolvedBefore(A, i))

ExtensionKept(f, i) ==
  SpecAfter(f, i) # SpecBefore(f, i) =>
    (HasSourceExt(SpecAfter(f, i)) <=> HasSourceExt(SpecBefore(f, i)))

\* C2: renameFileOrFolder preserves the extension style of every specifier it
\* rewrites: the new specifier ends with a source extension exactly when the
\* original did; when utils/a.ts becomes utils/b.ts, './u/a' becomes './u/b'
\* and './u/a.ts' becomes './u/b.ts'.
C2_ExtensionStyle ==
  RenameDone =>
    /\ \A f \in ProjectFiles(pre.files) :
         \A i \in DOMAIN pre.text[f] : ExtensionKept(f, i)
    /\ (call.source = FileA /\ call.destination = FileB) =>
         \A i \in DOMAIN pre.text[FileMain] :
           /\ SpecBefore(FileMain, i) = SpecUA => SpecAfter(FileMain, i) = SpecUB
           /\ SpecBefore(FileMain, i) = SpecUAts => SpecAfter(FileMain, i) = SpecUBts

\* utils/a.ts was renamed to utils/b.ts while main.ts referenced it both
\* without and with its extension, and both references were rewritten
C2_Witness ==
  /\ RenameDone
  /\ call.source = FileA
  /\ call.destination = FileB
  /\ \E i, j \in DOMAIN pre.text[FileMain] :
       /\ SpecBefore(FileMain, i) = SpecUA
       /\ SpecAfter(FileMain, i) = SpecUB
       /\ SpecBefore(FileMain, j) = SpecUAts
       /\ SpecAfter(FileMain, j) = SpecUBts

\* the new path plus the original relative suffix, seen from where file f is
\* after the rename, in the style of the original specifier
SuffixRule(f, orig, B) ==
  KeepIndex(orig,
    KeepExtension(orig,
      DotSlash(PathRelative(Dirname(After(f)),
                            ReRoot(B, call.source, call.destination)))))

RewrittenAt(f, i, B) ==
  (/\ pre.text[f][i].kind \in Kinds
   /\ StartsWith(SpecBefore(f, i), Dot)
   /\ Under(B, call.source))
  => /\ SpecAfter(f, i) = SuffixRule(f, SpecBefore(f, i), B)
     /\ f \in updated

\* C3: renameFileOrFolder with updateImports rewrites every kind of reference
\* (static import, export ... from, import() with a string literal) whose
\* specifier resolves at or under the old path to the new path plus the
\* original relative suffix, and lists the file in updatedFiles.
C3_EveryKindRewritten ==
  RenameDone =>
    \A f \in ProjectFiles(pre.files) :
      \A i \in DOMAIN pre.text[f] : RewrittenAt(f, i, ResolvedBefore(f, i))

\* reference i of file f names the directory of the moved index file,
\* without '/index'
NamesDirectoryOf(f, i, indexFile) ==
  /\ StartsWith(SpecBefore(f, i), Dot)
  /\ ~EndsWith(SpecBefore(f, i), SlashIndex)
  /\ PathResolve(Dirname(f), SpecBefore(f, i)) = Dirname(indexFile)

\* C4: when an index file is moved (moveTypeScriptFile) or renamed
\* (renameFileOrFolder) to an index file of another directory, every importer
\* that named the containing directory without '/index' names the new
\* containing directory afterwards.
C4_IndexFileMoved ==
  (/\ MovedOrRenamed
   /\ result = "ok"
   /\ call.updateImports
   /\ call.source = FileIndex
   /\ Basename(call.destination) = IndexTs)
  => \A f \in ProjectFiles(pre.files) \ { FileIndex } :
       \A i \in DOMAIN pre.text[f] :
         NamesDirectoryOf(f, i, FileIndex) =>
           SpecAfter(f, i)
             = DotSlash(PathRelative(Dirname(f), Dirname(call.destination)))

\* utils/ was renamed as a directory with updateImports
DirectoryRenamed == RenameDone /\ call.source = DirU

\* utils/index.ts was moved to the index.ts of another directory
IndexMoved ==
  MoveDone /\ call.source = FileIndex /\ Basename(call.destination) = IndexTs

\* C5 as stated: after utils/ (holding index.ts) went to another directory,
\* by renameFileOrFolder on the directory or by moveTypeScriptFile on
\* utils/index.ts, a consumer that imported './u/index' names the new
\* directory, with no '/index' suffix and no extension.
C5_DirectoryStyle ==
  /\ IndexMoved =>
       \A i \in DOMAIN pre.text[FileMain] :
         SpecBefore(FileMain, i) = SpecUIndex =>
           SpecAfter(FileMain, i)
             = DotSlash(PathRelative(Root, Dirname(call.destination)))
  /\ DirectoryRenamed =>
       \A i \in DOMAIN pre.text[FileMain] :
         SpecBefore(FileMain, i) = SpecUIndex =>
           SpecAfter(FileMain, i) = DotSlash(PathRelative(Root, call.destination))

\* C5 as the code has it: moveTypeScriptFile on utils/index.ts leaves the
\* consumer with the directory-style specifier; renameFileOrFolder on the
\* directory keeps the '/index' suffix the consumer wrote and adds no
\* extension.
C5_IndexStyleKept ==
  /\ IndexMoved =>
       \A i \in DOMAIN pre.text[FileMain] :
         SpecBefore(FileMain, i) = SpecUIndex =>
           SpecAfter(FileMain, i)
             = DotSlash(PathRelative(Root, Dirname(call.destination)))
  /\ DirectoryRenamed =>
       \A i \in DOMAIN pre.text[FileMain] :
         SpecBefore(FileMain, i) = SpecUIndex =>
           /\ SpecAfter(FileMain, i)
                = DotSlash(PathRelative(Root, call.destination)) \o SlashIndex
           /\ ~HasSourceExt(SpecAfter(FileMain, i))

\* utils/ was renamed to helpers/ and the consumer's './u/index' is now
\* './h/index'
C5_Witness ==
  /\ DirectoryRenamed
  /\ call.destination = DirH
  /\ \E i \in DOMAIN pre.text[FileMain] :
       /\ SpecBefore(FileMain, i) = SpecUIndex
       /\ SpecAfter(FileMain, i) = <<".", "/", "h", "/", "index">>

\* C6: failure atomicity.  When renameFileOrFolder or moveTypeScriptFile
\* returns success=false, no file on disk differs from its state before the
\* call: no rewritten specifier was saved and the source is where it was.
C6_FailureAtomic ==
  (MovedOrRenamed /\ result = "fail") =>
    /\ files = pre.files
    /\ text = pre.text

\* C7: a destination collision is terminal.  When the destination exists at
\* the call, renameFileOrFolder and moveTypeScriptFile (updateImports true or
\* false) return success=false and leave the source and the destination
\* untouched.
C7_CollisionTerminal ==
  (MovedOrRenamed /\ Exists(pre.files, pre.dirs, call.destination)) =>
    /\ result = "fail"
    /\ files = pre.files
    /\ text = pre.text

\* C8: every public operation completes by returning a result record and
\* never throws, also for a file path that does not exist.
C8_NeverThrows == pc = "done" => result \in { "ok", "fail" }

\* C9: write order.  The physical rename (the source leaving its old path)
\* comes after every save of a referencing file: no referencing file is
\* saved after it.
C9_SaveBeforeRename ==
  \A i, j \in DOMAIN log :
    (/\ i < j
     /\ log[i].ev = "rename"
     /\ log[j].ev = "save")
    => log[j].path = Normalize(call.destination)

\* C10: guaranteed cleanup.  Every operation that constructed a project
\* snapshot has run its cleanup step exactly once when it returns, on the
\* success path and on every failure path.
C10_CleanupOnce == (pc = "done" /\ built) => cleanups = 1

----------------------------------------------------------------------------
(* services/import-path-repair: the universe of the repair operation       *)

\* the largest number of import declarations of the repaired file
MaxImports == 2

\* the largest number of operations run one after the other
MaxCalls == 2

\* test-specific.ts, the file under repair, in the project root
RFileT == <<"/", "t", ".", "ts">>

\* src/utils/math.ts, alternative/math.ts, src/utils/math.d.ts, math/index.ts
RMathU   == <<"/", "s", "/", "u", "/", "m", ".", "ts">>
RMathA   == <<"/", "a", "/", "m", ".", "ts">>
RMathDts == <<"/", "s", "/", "u", "/", "m", ".", "d", ".", "ts">>
RMathIdx == <<"/", "m", "/", "index", ".", "ts">>
\* dist/math.ts, a build output
RMathDist == <<"/", "dist", "/", "m", ".", "ts">>

\* export const add, multiply; export default
ExportsAll == [ names |-> { "add", "multiply" }, hasDefault |-> TRUE ]
\* export const divide
ExportsDivide == [ names |-> { "divide" }, hasDefault |-> FALSE ]
\* export const add
ExportsAdd == [ names |-> { "add" }, hasDefault |-> FALSE ]

Absent == [ names |-> {}, hasDefault |-> FALSE, absent |-> TRUE ]

\* what each file of the project can be: absent, or present with its exports
RepairChoices(f) ==
  IF f = RMathU THEN { Absent, ExportsAll, ExportsAdd }
  ELSE IF f = RMathA THEN { Absent, ExportsAll, ExportsDivide }
  ELSE IF f = RMathDts THEN { Absent, ExportsDivide }
  ELSE IF f = RMathIdx THEN { Absent, ExportsAll }
  ELSE { ExportsAll }

RepairCandidates == { RMathU, RMathA, RMathDts, RMathIdx, RMathDist }

\* 'pkg', './s/u/m', './s/u/m.ts', './w/m', './w/z'
SpecPkg    == <<"p">>
SpecMath   == <<".", "/", "s", "/", "u", "/", "m">>
SpecMathTs == <<".", "/", "s", "/", "u", "/", "m", ".", "ts">>
SpecWrong  == <<".", "/", "w", "/", "m">>
SpecNone   == <<".", "/", "w", "/", "z">>

ImportDecl(s, type, names) ==
  [ kind |-> "import", spec |-> s, importType |-> type, named |-> names ]

\* the import declarations the repaired file can hold:
\*   import pkg from 'pkg'
\*   import { add, multiply } from './s/u/m'
\*   import { add, multiply } from './s/u/m.ts'
\*   import math from './s/u/m.ts'
\*   import { add, multiply } from './w/m'
\*   import { divide } from './w/m'
\*   import math from './w/m'
\*   import * as math from './w/m'
\*   import { divide } from './w/z'
RepairDecls ==
  << ImportDecl(SpecPkg, "default", {}),
     ImportDecl(SpecMath, "named", { "add", "multiply" }),
     ImportDecl(SpecMathTs, "named", { "add", "multiply" }),
     ImportDecl(SpecMathTs, "default", {}),
     ImportDecl(SpecWrong, "named", { "add", "multiply" }),
     ImportDecl(SpecWrong, "named", { "divide" }),
     ImportDecl(SpecWrong, "default", {}),
     ImportDecl(SpecWrong, "namespace", {}),
     ImportDecl(SpecNone, "named", { "divide" }) >>

\* the texts of the repaired file.  repairSingleImport treats each import
\* declaration on its own, so one text stands for all the texts that hold
\* the same declarations in another order.
RepairTexts ==
  UNION { { [ i \in 1..n |-> RepairDecls[c[i]] ] :
              c \in { d \in [ 1..n -> DOMAIN RepairDecls ] : Ascending(d) } } :
          n \in 1..MaxImports }

----------------------------------------------------------------------------
(* services/import-path-repair: repairSingleImport and its helpers         *)

\* ['.ts', '.tsx', '.js', '.jsx', '.d.ts']
RepairExts ==
  << <<".", "ts">>, <<".", "ts", "x">>, <<".", "j", "s">>, <<".", "j", "s", "x">>,
     <<".", "d", ".", "ts">> >>

\* the paths resolveImportPath probes, in order: resolved + ext for each
\* extension, then resolve(resolved, 'index' + ext) for each extension
RepairProbes(resolved) ==
  [ i \in 1..Len(RepairExts) |-> resolved \o RepairExts[i] ]
    \o [ i \in 1..Len(RepairExts) |-> PathResolve(resolved, <<"index">> \o RepairExts[i]) ]

RepairProbeAt(probes, hits) ==
  IF hits = {} THEN Undefined ELSE probes[MinOf(hits)]

RepairFirstProbe(fs, ds, probes) ==
  RepairProbeAt(probes, { i \in DOMAIN probes : Exists(fs, ds, probes[i]) })

\* resolveImportPath(currentFilePath, importPath) of the repair service:
\* null (Undefined) when no probe exists
repairResolveImportPath(fs, ds, currentFilePath, importPath) ==
  RepairFirstProbe(fs, ds, RepairProbes(PathResolve(Dirname(currentFilePath), importPath)))

DtsExt == <<".", "d", ".", "ts">>

\* s.replace(/\.(ts|tsx|js|jsx|d\.ts)$/, ''): the match that starts first wins
StripRepairExt(s) ==
  IF EndsWith(s, DtsExt) THEN DropLast(s, Len(DtsExt)) ELSE StripSourceExt(s)

\* path.basename of a path that may be relative
RelBasename(p) == LastOfSegs(Split(p))

\* path.basename(path.dirname(p)) of a path that may be relative
ParentBasename(p) ==
  IF Len(Split(p)) < 2 THEN Dot ELSE Split(p)[Len(Split(p)) - 1]

\* getFileNameFromPath(importPath): null (Undefined) for an empty name
getFileNameFromPath(importPath) ==
  IF StripRepairExt(RelBasename(importPath)) = <<"index">>
  THEN ParentBasename(importPath)
  ELSE StripRepairExt(RelBasename(importPath))

\* the glob patterns of findFilesByName, as the suffix each one puts after
\* '**/' + fileName
RepairPatterns ==
  << <<".", "ts">>, <<".", "ts", "x">>, <<".", "j", "s">>, <<".", "j", "s", "x">>,
     <<".", "d", ".", "ts">>,
     <<"/", "index", ".", "ts">>, <<"/", "index", ".", "ts", "x">>,
     <<"/", "index", ".", "j", "s">>, <<"/", "index", ".", "j", "s", "x">> >>

\* glob('**/' + tail) matches the file at rel, a path relative to the cwd
GlobMatch(rel, tail) == rel = tail \/ EndsWith(rel, <<"/">> \o tail)

\* ignore: ['node_modules/**', 'dist/**', '**/*.spec.ts', '**/*.test.ts']
GlobIgnored(rel) ==
  \/ StartsWith(rel, <<"node_modules", "/">>)
  \/ StartsWith(rel, <<"dist", "/">>)
  \/ EndsWith(rel, <<".", "s", "p", "e", "c", ".", "ts">>)
  \/ EndsWith(rel, <<".", "t", "e", "s", "t", ".", "ts">>)

\* the patterns of findFilesByName that find the file at rel
PatternsOf(rel, fileName) ==
  { i \in DOMAIN RepairPatterns : GlobMatch(rel, fileName \o RepairPatterns[i]) }

Found(rel, fileName) == ~GlobIgnored(rel) /\ PatternsOf(rel, fileName) # {}

\* the paths findFilesByName returns, for the cwd rootDir
findFilesByName(fs, rootDir, fileName) ==
  { f \in fs : StartsWith(f, rootDir) /\ Found(PathRelative(rootDir, f), fileName) }

\* the position of f in the list findFilesByName returns: the files of an
\* earlier pattern come first
PatternRank(rootDir, f, fileName) ==
  MinOf(PatternsOf(PathRelative(rootDir, f), fileName))

\* the cost of one part of a relative path
PartCost(part) == IF part = DotDot THEN 2 ELSE 1

RECURSIVE SumCost(_)
SumCost(parts) ==
  IF parts = << >> THEN 0 ELSE PartCost(Head(parts)) + SumCost(Tail(parts))

\* calculateDirectoryDistance(dir1, dir2)
calculateDirectoryDistance(dir1, dir2) ==
  SumCost(SelectSeq(Split(PathRelative(dir1, dir2)), LAMBDA part : part # Dot))

\* the characters of a symbol
Explode(c) ==
  IF c = "index" THEN <<"i", "n", "d", "e", "x">>
  ELSE IF c = "ts" THEN <<"t", "s">>
  ELSE IF c = "dist" THEN <<"d", "i", "s", "t">>
  ELSE << c >>

RECURSIVE Chars(_)
\* str.toLowerCase().split(''); every name of the universe is lower case
Chars(s) == IF s = << >> THEN << >> ELSE Explode(Head(s)) \o Chars(Tail(s))

RECURSIVE CommonChars(_, _)
CommonAt(chars1, chars2, index) ==
  IF index = 0 THEN CommonChars(Tail(chars1), chars2)
  ELSE 1 + CommonChars(Tail(chars1), ReplaceAt(chars2, index, 1, << >>))

\* the loop of calculateSimilarity: each character of chars2 is used once
CommonChars(chars1, chars2) ==
  IF chars1 = << >> THEN 0
  ELSE CommonAt(chars1, chars2, IndexOf(chars2, << Head(chars1) >>))

MaxOf2(a, b) == IF a >= b THEN a ELSE b

\* calculateSimilarity(str1, str2), as the fraction num / den
calculateSimilarity(str1, str2) ==
  IF Len(str1) = 0 /\ Len(str2) = 0 THEN [ num |-> 1, den |-> 1 ]
  ELSE IF Len(str1) = 0 \/ Len(str2) = 0 THEN [ num |-> 0, den |-> 1 ]
  ELSE IF str1 = str2 THEN [ num |-> 1, den |-> 1 ]
  ELSE [ num |-> CommonChars(Chars(str1), Chars(str2)),
         den |-> MaxOf2(Len(Chars(str1)), Len(Chars(str2))) ]

\* path.extname of a file name: from its last dot
Extname(base) ==
  IF EndsWith(base, <<".", "ts">>) THEN <<".", "ts">>
  ELSE IF EndsWith(base, <<".", "ts", "x">>) THEN <<".", "ts", "x">>
  ELSE IF EndsWith(base, <<".", "j", "s">>) THEN <<".", "j", "s">>
  ELSE IF EndsWith(base, <<".", "j", "s", "x">>) THEN <<".", "j", "s", "x">>
  ELSE << >>

\* basename(filePath, extname(filePath))
BaseNoExt(filePath) == DropLast(Basename(filePath), Len(Extname(Basename(filePath))))

\* the FileMatch record of a candidate, with the distance of scoreCandidates
Candidate(ex, rootDir, currentFilePath, fileName, f) ==
  [ path |-> f,
    exports |-> ex[f].names,
    hasDefault |-> ex[f].hasDefault,
    distance |-> calculateDirectoryDistance(Dirname(currentFilePath), Dirname(f)),
    similarity |-> calculateSimilarity(fileName, BaseNoExt(f)),
    rank |-> PatternRank(rootDir, f, fileName) ]

\* the export test of the sort comparator
HasExports(c, requiredExports, importType) ==
  IF importType = "default" THEN c.hasDefault
  ELSE requiredExports \subseteq c.exports

\* the filter of selectBestCandidate
ExportFilter(c, requiredExports, importType) ==
  IF importType = "default" THEN c.hasDefault
  ELSE IF importType = "named" /\ requiredExports # {}
       THEN requiredExports \subseteq c.exports
       ELSE TRUE

Filtered(cands, requiredExports, importType) ==
  { c \in cands : ExportFilter(c, requiredExports, importType) }

\* filteredCandidates, with the fall back to all candidates
FilteredOrAll(cands, requiredExports, importType) ==
  IF Filtered(cands, requiredExports, importType) = {} THEN cands
  ELSE Filtered(cands, requiredExports, importType)

\* a comparator that puts the candidate farther away first
SortsFartherFirst(a, b, requiredExports, importType) ==
  IF HasExports(a, requiredExports, importType) # HasExports(b, requiredExports, importType)
  THEN HasExports(a, requiredExports, importType)
  ELSE IF a.distance # b.distance THEN a.distance > b.distance
  ELSE a.similarity.num * b.similarity.den > b.similarity.num * a.similarity.den

\* the comparator of the sort is negative: a is put before b
SortsBefore(a, b, requiredExports, importType) ==
  IF HasExports(a, requiredExports, importType) # HasExports(b, requiredExports, importType)
  THEN HasExports(a, requiredExports, importType)
  ELSE IF a.distance # b.distance THEN a.distance < b.distance
  ELSE a.similarity.num * b.similarity.den > b.similarity.num * a.similarity.den

\* the sort is stable: of two candidates the comparator holds equal, the one
\* found by the earlier pattern stays first
StaysBefore(a, b, requiredExports, importType) ==
  \/ SortsBefore(a, b, requiredExports, importType)
  \/ /\ ~SortsBefore(b, a, requiredExports, importType)
     /\ a.rank < b.rank

FirstOf(cands, requiredExports, importType) ==
  { c \in cands : \A d \in cands : ~StaysBefore(d, c, requiredExports, importType) }

\* selectBestCandidate: the candidates that can be filteredCandidates[0].
\* The order in which glob lists the files of one pattern is not fixed.
selectBestCandidate(cands, requiredExports, importType) ==
  FirstOf(FilteredOrAll(cands, requiredExports, importType), requiredExports, importType)

\* generateRelativePath(fromFile, toFile)
generateRelativePath(fromFile, toFile) ==
  DotSlash(StripRepairExt(PathRelative(Dirname(fromFile), toFile)))

\* project.getRootDirectories()[0]: the directory of the repaired file,
\* which is also the directory of tsconfig.json
RepairRootDir(currentFilePath) == Dirname(currentFilePath)

IsExternal(originalPath) ==
  ~StartsWith(originalPath, Dot) /\ ~StartsWith(originalPath, <<"/">>)

AlreadyValid(decl, why) ==
  [ originalPath |-> decl.spec, repairedPath |-> Undefined,
    importType |-> decl.importType, status |-> "already_valid", reason |-> why,
    candidateFiles |-> {}, selectedFile |-> Undefined ]

NotFound(decl, why, candidateFiles) ==
  [ originalPath |-> decl.spec, repairedPath |-> Undefined,
    importType |-> decl.importType, status |-> "not_found", reason |-> why,
    candidateFiles |-> candidateFiles, selectedFile |-> Undefined ]

Repaired(decl, currentFilePath, candidateFiles, best) ==
  [ originalPath |-> decl.spec,
    repairedPath |-> generateRelativePath(currentFilePath, best),
    importType |-> decl.importType, status |-> "repaired",
    reason |-> IF decl.named # {} THEN "export matching" ELSE "proximity",
    candidateFiles |-> candidateFiles, selectedFile |-> best ]

\* the candidates of an import declaration, scored
Scored(ex, currentFilePath, fileName, candidateFiles) ==
  { Candidate(ex, RepairRootDir(currentFilePath), currentFilePath, fileName, f) :
      f \in candidateFiles }

\* if (!bestCandidate) ... 'No suitable candidate found', else the repaired
\* result for each candidate that can be the best
BestOrNone(decl, currentFilePath, candidateFiles, best) ==
  IF best = {}
  THEN { NotFound(decl, "No suitable candidate found", candidateFiles) }
  ELSE { Repaired(decl, currentFilePath, candidateFiles, c.path) : c \in best }

\* the end of repairSingleImport: one result for each candidate the sort
\* can put first
SelectFrom(ex, currentFilePath, decl, fileName, candidateFiles) ==
  IF candidateFiles = {}
  THEN { NotFound(decl, "No matching files found", {}) }
  ELSE BestOrNone(decl, currentFilePath, candidateFiles,
                  selectBestCandidate(
                    Scored(ex, currentFilePath, fileName, candidateFiles),
                    decl.named, decl.importType))

SearchFor(fs, ex, currentFilePath, decl, fileName) ==
  IF fileName = << >>
  THEN { NotFound(decl, "Cannot extract filename from path", {}) }
  ELSE SelectFrom(ex, currentFilePath, decl, fileName,
                  findFilesByName(fs, RepairRootDir(currentFilePath), fileName))

\* repairSingleImport(sourceFile, importDecl, project, options): the results
\* it can return
repairSingleImport(fs, ds, ex, currentFilePath, decl) ==
  IF IsExternal(decl.spec)
  THEN { AlreadyValid(decl, "External module import") }
  ELSE IF repairResolveImportPath(fs, ds, currentFilePath, decl.spec) # Undefined
  THEN { AlreadyValid(decl, "Path already valid") }
  ELSE SearchFor(fs, ex, currentFilePath, decl, getFileNameFromPath(decl.spec))

\* repairResult.status === 'repaired' && repairResult.repairedPath
IsRepaired(r) == r.status = "repaired" /\ r.repairedPath # << >>

\* a loop body that sets the specifier in a dry run too
SetAlways(dryRun, decl, r) ==
  IF IsRepaired(r) THEN [ decl EXCEPT !.spec = r.repairedPath ] ELSE decl

\* the declaration after the loop body: setModuleSpecifier unless dryRun
SetUnlessDryRun(dryRun, decl, r) ==
  IF IsRepaired(r) /\ ~dryRun THEN [ decl EXCEPT !.spec = r.repairedPath ] ELSE decl

\* totalImportsRepaired
CountRepaired(report) == Cardinality({ i \in DOMAIN report : IsRepaired(report[i]) })

----------------------------------------------------------------------------
(* services/import-path-repair: repairImportPaths                          *)

\* a path that is never on disk
RFileGone == <<"/", "g", ".", "ts">>

NoExports == [ names |-> {}, hasDefault |-> FALSE ]

RepairFilesOf(ch) == { RFileT } \cup { f \in RepairCandidates : ch[f] # Absent }

DirsOf(fs) ==
  { Root } \cup { Dirname(f) : f \in fs } \cup { Dirname(Dirname(f)) : f \in fs }

RepairInitDisk(ch, t) ==
  /\ files = RepairFilesOf(ch)
  /\ dirs = DirsOf(RepairFilesOf(ch))
  /\ exports = [ f \in RepairFilesOf(ch) |-> IF f = RFileT THEN NoExports ELSE ch[f] ]
  /\ text = [ f \in RepairFilesOf(ch) |-> IF f = RFileT THEN t ELSE << >> ]

Idle ==
  /\ pc = "idle"
  /\ call = NoCall
  /\ pre = [ files |-> {}, dirs |-> {}, text |-> << >> ]
  /\ mem = << >>
  /\ unsaved = {}
  /\ queued = {}
  /\ updated = {}
  /\ result = "none"
  /\ built = FALSE
  /\ cleanups = 0
  /\ log = << >>
  /\ out = NoCall
  /\ hist = << >>

RepairInit ==
  /\ \E ch \in [ RepairCandidates -> UNION { RepairChoices(f) : f \in RepairCandidates } ] :
       /\ \A f \in RepairCandidates : ch[f] \in RepairChoices(f)
       /\ \E t \in RepairTexts : RepairInitDisk(ch, t)
  /\ Idle

CallRepair ==
  /\ pc = "idle"
  /\ Len(hist) < MaxCalls
  /\ \E p \in { RFileT, RFileGone }, dry \in BOOLEAN :
       call' = [ op |-> "repair", filePath |-> p, dryRun |-> dry ]
  /\ pc' = "repair"
  /\ pre' = Snapshot
  /\ UNCHANGED << files, dirs, text, mem, unsaved, queued, updated, result,
                  built, cleanups, log, exports, out, hist >>

RECURSIVE RepairReports(_, _, _, _, _)
\* the values result.repairedImports can take after the loop over decls
RepairReports(fs, ds, ex, f, decls) ==
  IF decls = << >> THEN { << >> }
  ELSE { << r >> \o rest :
           r \in repairSingleImport(fs, ds, ex, f, Head(decls)),
           rest \in RepairReports(fs, ds, ex, f, Tail(decls)) }

\* the import declarations of the source file after the loop
RepairedDecls(dryRun, decls, report) ==
  [ i \in DOMAIN decls |-> SetUnlessDryRun(dryRun, decls[i], report[i]) ]

\* if (!dryRun && result.totalImportsRepaired > 0) await sourceFile.save()
RepairSaves(dryRun, report) == ~dryRun /\ CountRepaired(report) > 0

RepairResult(f, report) ==
  [ filePath |-> f, repairedImports |-> report, errors |-> << >>,
    totalImportsChecked |-> Len(report),
    totalImportsRepaired |-> CountRepaired(report) ]

\* what the disk holds of file f after the operation
RepairWrites(f, dryRun, decls, report) ==
  IF RepairSaves(dryRun, report) THEN RepairedDecls(dryRun, decls, report) ELSE decls

RepairDone(f, dryRun, decls, report) ==
  /\ text' = [ text EXCEPT ![f] = RepairWrites(f, dryRun, decls, report) ]
  /\ log' = IF RepairSaves(dryRun, report)
            THEN Append(log, [ ev |-> "save", path |-> f ]) ELSE log
  /\ out' = RepairResult(f, report)
  /\ hist' = Append(hist, [ call |-> call, out |-> RepairResult(f, report),
                            before |-> decls,
                            held |-> RepairedDecls(dryRun, decls, report),
                            after |-> RepairWrites(f, dryRun, decls, report),
                            saved |-> RepairSaves(dryRun, report) ])
  /\ result' = "ok"

\* repairImportPaths: the project and the source file are made before the
\* try block, so a missing file throws; then the loop over the import
\* declarations and the save
RepairImports ==
  /\ pc = "repair"
  /\ IF call.filePath \notin files
     THEN /\ result' = "thrown"
          /\ UNCHANGED << text, log, out, hist >>
     ELSE \E report \in RepairReports(files, dirs, exports, call.filePath,
                                      text[call.filePath]) :
            RepairDone(call.filePath, call.dryRun, text[call.filePath], report)
  /\ built' = TRUE
  /\ pc' = "idle"
  /\ UNCHANGED << files, dirs, call, pre, mem, unsaved, queued, updated,
                  cleanups, exports >>

RepairNext ==
  \/ CallRepair
  \/ RepairImports

RepairSpec == RepairInit /\ [][RepairNext]_vars

----------------------------------------------------------------------------
(* services/import-optimization: optimizeImports                           *)

\* the largest number of import declarations of the optimized file
MaxDecls == 2

\* the file under optimization
OFile == <<"/", "o", ".", "ts">>

\* './m', './u', './u/index'
SpecM == <<".", "/", "m">>
SpecU == <<".", "/", "u">>
SpecUIdx == <<".", "/", "u", "/", "index">>

NoName == "-"

\* an import declaration: import [type] [def,] { named } from 'spec'
Import(typeOnly, def, named, s) ==
  [ kind |-> "import", spec |-> s, typeOnly |-> typeOnly, def |-> def, named |-> named ]

\* the import declarations the optimized file can hold:
\*   import { T, v } from './m'        import { v } from './m'
\*   import type { T } from './m'      import { w } from './m'
\*   import D from './u/index'         import { v, w } from './u'
\*   import X, { v } from './m'
OptDecls ==
  << Import(FALSE, NoName, <<"T", "v">>, SpecM),
     Import(FALSE, NoName, <<"v">>, SpecM),
     Import(TRUE, NoName, <<"T">>, SpecM),
     Import(FALSE, NoName, <<"w">>, SpecM),
     Import(FALSE, "D", << >>, SpecUIdx),
     Import(FALSE, NoName, <<"v", "w">>, SpecU),
     Import(FALSE, "X", <<"v">>, SpecM) >>

OptTexts ==
  UNION { { [ i \in 1..n |-> OptDecls[c[i]] ] : c \in [ 1..n -> DOMAIN OptDecls ] } :
          n \in 1..MaxDecls }

\* the identifiers of the code below the imports: T is the type of a
\* variable, v and D are called; w and X do not occur
BodyIdentifiers == { "T", "v", "D" }
BodyTypeIdentifiers == { "T" }

Range(s) == { s[i] : i \in DOMAIN s }

\* the Identifier nodes of an import declaration
DeclIdentifiers(d) == Range(d.named) \cup (IF d.def = NoName THEN {} ELSE { d.def })

Change(type, what) == [ type |-> type, originalImport |-> what ]

\* the state of the passes: the import declarations and the changes
Work(decls, changes) == [ decls |-> decls, changes |-> changes ]

\* optimizeIndexImportPaths, the loop body for one declaration
IsIndexPath(d) == StartsWith(d.spec, Dot) /\ EndsWith(d.spec, SlashIndex)

IndexChanges(decls) ==
  SelectSeq([ i \in DOMAIN decls |->
                IF IsIndexPath(decls[i]) THEN Change("optimized_path", decls[i])
                ELSE Change("none", decls[i]) ],
            LAMBDA c : c.type # "none")

\* optimizeIndexImportPaths(sourceFile, changes)
optimizeIndexImportPaths(w) ==
  Work([ i \in DOMAIN w.decls |->
           IF IsIndexPath(w.decls[i])
           THEN [ w.decls[i] EXCEPT !.spec = StripIndexSuffix(w.decls[i].spec) ]
           ELSE w.decls[i] ],
       w.changes \o IndexChanges(w.decls))

\* importGroups.get(moduleSpecifier): the positions of the group, in order
Group(decls, s) == { i \in DOMAIN decls : decls[i].spec = s }

IsFirstOfGroup(decls, i) == i = MinOf(Group(decls, decls[i].spec))

\* the first default import of the group, if any
GroupDefault(decls, g) ==
  IF { i \in g : decls[i].def # NoName } = {} THEN NoName
  ELSE decls[MinOf({ i \in g : decls[i].def # NoName })].def

RECURSIVE Flatten(_)
Flatten(ss) == IF ss = << >> THEN << >> ELSE Head(ss) \o Flatten(Tail(ss))

\* the named imports of the group with the position of their declaration,
\* in the order of the two loops
GroupNames(decls, g) ==
  Flatten([ i \in DOMAIN decls |->
              IF i \in g
              THEN [ j \in DOMAIN decls[i].named |->
                       [ name |-> decls[i].named[j], typeOnly |-> decls[i].typeOnly ] ]
              ELSE << >> ])

\* allNamedImports.includes(importName): only the first import of a name counts
FirstMentions(ns) ==
  SelectSeq([ k \in DOMAIN ns |->
                [ name |-> ns[k].name, typeOnly |-> ns[k].typeOnly,
                  first |-> \A l \in 1..(k - 1) : ns[l].name # ns[k].name ] ],
            LAMBDA n : n.first)

NamesOf(ns) == [ k \in DOMAIN ns |-> ns[k].name ]

\* typeImports and valueImports
TypeImports(ns) == NamesOf(SelectSeq(FirstMentions(ns), LAMBDA n : n.typeOnly))
ValueImports(ns) == NamesOf(SelectSeq(FirstMentions(ns), LAMBDA n : ~n.typeOnly))

\* newImportText: the import type statement, then the consolidated import
Consolidated(s, def, ns) ==
  (IF TypeImports(ns) = << >> THEN << >>
   ELSE << Import(TRUE, NoName, TypeImports(ns), s) >>)
  \o (IF def = NoName /\ ValueImports(ns) = << >> THEN << >>
      ELSE << Import(FALSE, def, ValueImports(ns), s) >>)

\* what stands at position i after the consolidation
ConsolidatedAt(decls, i) ==
  IF Cardinality(Group(decls, decls[i].spec)) <= 1 THEN << decls[i] >>
  ELSE IF ~IsFirstOfGroup(decls, i) THEN << >>
  ELSE Consolidated(decls[i].spec,
                    GroupDefault(decls, Group(decls, decls[i].spec)),
                    GroupNames(decls, Group(decls, decls[i].spec)))

\* originalImports: the declarations of the group
GroupText(decls, g) ==
  Flatten([ i \in DOMAIN decls |-> IF i \in g THEN << decls[i] >> ELSE << >> ])

ReportsGroup(decls, i) ==
  /\ IsFirstOfGroup(decls, i)
  /\ Cardinality(Group(decls, decls[i].spec)) > 1

ConsolidateChanges(decls) ==
  SelectSeq([ i \in DOMAIN decls |->
                IF ReportsGroup(decls, i)
                THEN Change("consolidated", GroupText(decls, Group(decls, decls[i].spec)))
                ELSE Change("none", << >>) ],
            LAMBDA c : c.type # "none")

\* consolidateImportsFromSameModule(sourceFile, changes)
consolidateImportsFromSameModule(w) ==
  Work(Flatten([ i \in DOMAIN w.decls |-> ConsolidatedAt(w.decls, i) ]),
       w.changes \o ConsolidateChanges(w.decls))

\* isIdentifierUsed(sourceFile, identifier, importDecl): an identifier of the
\* code or of another import declaration has this text
isIdentifierUsed(others, identifier) ==
  \/ identifier \in BodyIdentifiers
  \/ \E k \in DOMAIN others : identifier \in DeclIdentifiers(others[k])

UsedNamed(others, d) ==
  SelectSeq(d.named, LAMBDA n : isIdentifierUsed(others, n))

UnusedNamed(others, d) ==
  SelectSeq(d.named, LAMBDA n : ~isIdentifierUsed(others, n))

HasUsedImports(others, d) ==
  \/ d.def # NoName /\ isIdentifierUsed(others, d.def)
  \/ UsedNamed(others, d) # << >>

\* the changes of the loop body of removeUnusedImports for declaration d
UnusedChanges(others, d) ==
  (IF d.def # NoName /\ ~isIdentifierUsed(others, d.def)
   THEN << Change("removed", << d.def >>) >> ELSE << >>)
  \o [ k \in DOMAIN UnusedNamed(others, d) |->
         Change("removed", << UnusedNamed(others, d)[k] >>) ]
  \o (IF HasUsedImports(others, d) THEN << >> ELSE << Change("removed", d) >>)

\* the declaration after the loop body: unused named imports are removed,
\* an unused default import stays; nothing is left of an unused declaration
UnusedKept(others, d) ==
  IF HasUsedImports(others, d)
  THEN << [ d EXCEPT !.named = UsedNamed(others, d) ] >>
  ELSE << >>

RECURSIVE RemoveLoop(_, _, _)
\* the loop of removeUnusedImports: done are the declarations already
\* visited (as they now are), todo the ones to visit
RemoveLoop(done, todo, changes) ==
  IF todo = << >> THEN Work(done, changes)
  ELSE IF Head(todo).typeOnly
       THEN RemoveLoop(Append(done, Head(todo)), Tail(todo), changes)
       ELSE RemoveLoop(done \o UnusedKept(done \o Tail(todo), Head(todo)),
                       Tail(todo),
                       changes \o UnusedChanges(done \o Tail(todo), Head(todo)))

\* removeUnusedImports(sourceFile, changes)
removeUnusedImports(w) == RemoveLoop(<< >>, w.decls, w.changes)

\* isTypeIdentifier(sourceFile, identifier)
isTypeIdentifier(identifier) == identifier \in BodyTypeIdentifiers

TypeNamed(d) == SelectSeq(d.named, LAMBDA n : isTypeIdentifier(n))
ValueNamed(d) == SelectSeq(d.named, LAMBDA n : ~isTypeIdentifier(n))

Separates(d) == ~d.typeOnly /\ TypeNamed(d) # << >> /\ ValueNamed(d) # << >>

\* newImportText of separateTypeAndValueImports: the default import of the
\* declaration is not written
SeparatedAt(d) ==
  IF Separates(d)
  THEN << Import(TRUE, NoName, TypeNamed(d), d.spec),
          Import(FALSE, NoName, ValueNamed(d), d.spec) >>
  ELSE << d >>

SeparateChanges(decls) ==
  SelectSeq([ i \in DOMAIN decls |->
                IF Separates(decls[i]) THEN Change("separated", decls[i])
                ELSE Change("none", decls[i]) ],
            LAMBDA c : c.type # "none")

\* separateTypeAndValueImports(sourceFile, changes)
separateTypeAndValueImports(w) ==
  Work(Flatten([ i \in DOMAIN w.decls |-> SeparatedAt(w.decls[i]) ]),
       w.changes \o SeparateChanges(w.decls))

\* the four passes of optimizeImports, each under its option
Pass1(o, w) == IF o.optimizeIndexPaths THEN optimizeIndexImportPaths(w) ELSE w
Pass2(o, w) == IF o.consolidateImports THEN consolidateImportsFromSameModule(w) ELSE w
Pass3(o, w) == IF o.removeUnused THEN removeUnusedImports(w) ELSE w
Pass4(o, w) == IF o.separateTypeImports THEN separateTypeAndValueImports(w) ELSE w

Passes(o, decls) == Pass4(o, Pass3(o, Pass2(o, Pass1(o, Work(decls, << >>)))))

\* the result of optimizeImports for the text decls after the passes w
OptimizeResult(f, decls, w) ==
  [ filePath |-> f, optimized |-> (w.decls # decls), changes |-> w.changes,
    optimizedCode |-> IF w.decls # decls THEN w.decls ELSE << >>,
    error |-> FALSE ]

OptimizeError(f) ==
  [ filePath |-> f, optimized |-> FALSE, changes |-> << >>,
    optimizedCode |-> << >>, error |-> TRUE ]

OptOptions ==
  [ removeUnused : BOOLEAN, optimizeIndexPaths : BOOLEAN,
    consolidateImports : BOOLEAN, separateTypeImports : BOOLEAN ]

OptimizeInit ==
  /\ files = { OFile }
  /\ dirs = { Root }
  /\ exports = << >>
  /\ \E t \in OptTexts : text = [ f \in { OFile } |-> t ]
  /\ Idle

CallOptimize ==
  /\ pc = "idle"
  /\ Len(hist) < MaxCalls
  /\ \E p \in { OFile, RFileGone }, o \in OptOptions :
       call' = [ op |-> "optimize", filePath |-> p, options |-> o ]
  /\ pc' = "optimize"
  /\ pre' = Snapshot
  /\ UNCHANGED << files, dirs, text, mem, unsaved, queued, updated, result,
                  built, cleanups, log, exports, out, hist >>

OptimizeDone(f, decls, w) ==
  /\ text' = [ text EXCEPT ![f] = w.decls ]
  /\ log' = IF w.decls # decls THEN Append(log, [ ev |-> "save", path |-> f ]) ELSE log
  /\ out' = OptimizeResult(f, decls, w)
  /\ hist' = Append(hist, [ call |-> call, out |-> OptimizeResult(f, decls, w),
                            before |-> decls, after |-> w.decls,
                            saved |-> (w.decls # decls) ])

\* optimizeImports: the try block with the four passes and the save, the
\* catch block, and the cleanup of the finally block
OptimizeImports ==
  /\ pc = "optimize"
  /\ IF call.filePath \notin files
     THEN /\ out' = OptimizeError(call.filePath)
          /\ hist' = Append(hist, [ call |-> call, out |-> OptimizeError(call.filePath),
                                    before |-> << >>, after |-> << >>, saved |-> FALSE ])
          /\ UNCHANGED << text, log >>
     ELSE OptimizeDone(call.filePath, text[call.filePath],
                       Passes(call.options, text[call.filePath]))
  /\ result' = IF call.filePath \in files THEN "ok" ELSE "fail"
  /\ built' = TRUE
  /\ cleanups' = cleanups + 1
  /\ pc' = "idle"
  /\ UNCHANGED << files, dirs, call, pre, mem, unsaved, queued, updated, exports >>

OptimizeNext ==
  \/ CallOptimize
  \/ OptimizeImports

OptimizeSpec == OptimizeInit /\ [][OptimizeNext]_vars

----------------------------------------------------------------------------
(* services/check-deletable: the universe                                  *)

\* the targets: a.ts, u/index.ts, y.d.ts; the referencing file r.ts
CFileA   == <<"/", "a", ".", "ts">>
CFileIdx == <<"/", "u", "/", "index", ".", "ts">>
CFileDts == <<"/", "y", ".", "d", ".", "ts">>
CFileR   == <<"/", "r", ".", "ts">>

CheckTargets == { CFileA, CFileIdx, CFileDts }

\* a declaration that names a module: an import declaration, an export
\* declaration with a module specifier (star: export * from) or an import()
\* call with a string literal
Decl(k, s, typeOnly, star) ==
  [ kind |-> k, spec |-> s, typeOnly |-> typeOnly, star |-> star ]

\* the declarations r.ts can hold:
\*   import { add } from './a'          import type { A } from './a'
\*   export type { A } from './a'       export * from './a.ts'
\*   import('./u')                      import { x } from './u/index'
\*   import type { Y } from './y'       import { p } from './p'
\*   import a from 'a'                  export { x } from './u'
CheckDecls ==
  << Decl("import", <<".", "/", "a">>, FALSE, FALSE),
     Decl("import", <<".", "/", "a">>, TRUE, FALSE),
     Decl("export", <<".", "/", "a">>, TRUE, FALSE),
     Decl("export", <<".", "/", "a", ".", "ts">>, FALSE, TRUE),
     Decl("dynamic", <<".", "/", "u">>, FALSE, FALSE),
     Decl("import", <<".", "/", "u", "/", "index">>, FALSE, FALSE),
     Decl("import", <<".", "/", "y">>, TRUE, FALSE),
     Decl("import", <<".", "/", "p">>, FALSE, FALSE),
     Decl("import", <<"a">>, FALSE, FALSE),
     Decl("export", <<".", "/", "u">>, FALSE, FALSE) >>

\* the texts of r.ts, each set of declarations in one order
CheckTexts ==
  { << >> } \cup
  UNION { { [ i \in 1..n |-> CheckDecls[c[i]] ] :
              c \in { d \in [ 1..n -> DOMAIN CheckDecls ] : Ascending(d) } } :
          n \in 1..MaxImports }

\* the exports of the targets: a value, nothing, a type
ValueExport == [ names |-> { "add" }, hasDefault |-> FALSE, types |-> {} ]
NoExport    == [ names |-> {}, hasDefault |-> FALSE, types |-> {} ]
TypeExport  == [ names |-> { "Y" }, hasDefault |-> FALSE, types |-> { "Y" } ]

CheckExports(f) ==
  IF f = CFileA THEN ValueExport
  ELSE IF f = CFileDts THEN TypeExport
  ELSE NoExport

----------------------------------------------------------------------------
(* services/check-deletable: analysis                                      *)

\* possiblePaths of resolveModulePath
CheckProbes(resolvedPath) ==
  << resolvedPath,
     resolvedPath \o <<".", "ts">>, resolvedPath \o <<".", "ts", "x">>,
     resolvedPath \o <<".", "j", "s">>, resolvedPath \o <<".", "j", "s", "x">>,
     PathJoin(resolvedPath, <<"index", ".", "ts">>),
     PathJoin(resolvedPath, <<"index", ".", "ts", "x">>),
     PathJoin(resolvedPath, <<"index", ".", "j", "s">>),
     PathJoin(resolvedPath, <<"index", ".", "j", "s", "x">>) >>

\* resolveModulePath(sourceFile, moduleSpecifier): the first possible path
\* that exists (a file or a directory), undefined when there is none
resolveModulePath(fs, ds, sourceFile, moduleSpecifier) ==
  RepairFirstProbe(fs, ds, CheckProbes(PathResolve(Dirname(sourceFile), moduleSpecifier)))

\* path.basename(filePath).startsWith('index.')
IsIndexFile(filePath) == StartsWith(Basename(filePath), <<"index", ".">>)

\* getPathVariations(filePath)
getPathVariations(filePath) ==
  { filePath, StripSourceExt(filePath) }
    \cup (IF IsIndexFile(filePath) THEN { Dirname(filePath) } ELSE {})

\* the test the three scanners share
RefersTo(fs, ds, sourceFile, d, variations) ==
  /\ StartsWith(d.spec, Dot)
  /\ resolveModulePath(fs, ds, sourceFile, d.spec) # Undefined
  /\ resolveModulePath(fs, ds, sourceFile, d.spec) \in variations

Reference(sourceFile, type, decls, i) ==
  [ file |-> sourceFile, type |-> type, at |-> i,
    importedNames |-> IF decls[i].star THEN << "*" >> ELSE << >>,
    isTypeOnly |-> decls[i].typeOnly ]

NoReference == [ type |-> "none" ]

Refs(marked) == SelectSeq(marked, LAMBDA r : r.type # "none")

\* findDirectImportReferences(sourceFile, targetPathVariations, includeTypes)
findDirectImportReferences(fs, ds, sourceFile, decls, variations, includeTypes) ==
  Refs([ i \in DOMAIN decls |->
           IF /\ decls[i].kind = "import"
              /\ ~(~includeTypes /\ decls[i].typeOnly)
              /\ RefersTo(fs, ds, sourceFile, decls[i], variations)
           THEN Reference(sourceFile, "import", decls, i)
           ELSE NoReference ])

\* findWildcardExportReferences(sourceFile, targetPathVariations)
findWildcardExportReferences(fs, ds, sourceFile, decls, variations) ==
  Refs([ i \in DOMAIN decls |->
           IF /\ decls[i].kind = "export"
              /\ RefersTo(fs, ds, sourceFile, decls[i], variations)
           THEN Reference(sourceFile, "export", decls, i)
           ELSE NoReference ])

\* findDynamicImportReferences(sourceFile, targetPathVariations)
findDynamicImportReferences(fs, ds, sourceFile, decls, variations) ==
  Refs([ i \in DOMAIN decls |->
           IF /\ decls[i].kind = "dynamic"
              /\ RefersTo(fs, ds, sourceFile, decls[i], variations)
           THEN [ Reference(sourceFile, "dynamic_import", decls, i) EXCEPT !.isTypeOnly = FALSE ]
           ELSE NoReference ])

\* the loop body of findAllReferences for one source file
ReferencesIn(fs, ds, txt, sourceFile, variations, includeTypes) ==
  findDirectImportReferences(fs, ds, sourceFile, txt[sourceFile], variations, includeTypes)
    \o findWildcardExportReferences(fs, ds, sourceFile, txt[sourceFile], variations)
    \o findDynamicImportReferences(fs, ds, sourceFile, txt[sourceFile], variations)

\* a.spec.ts, u/index.spec.ts, y.d.spec.ts: the test files generateTestFile writes
TestFileOf(filePath) ==
  PathJoin(Dirname(filePath), BaseNoExt(filePath) \o <<".", "s", "p", "e", "c", ".", "ts">>)

MocksDir(filePath) == PathJoin(Dirname(filePath), <<"__mocks__">>)

MockFileOf(filePath, refFile) ==
  PathJoin(MocksDir(filePath), BaseNoExt(refFile) \o <<".", "mock", ".", "ts">>)

PackageMock(filePath) == PathJoin(MocksDir(filePath), <<"package", ".", "mock", ".", "ts">>)

\* project.getSourceFiles(): the files '**/*.{ts,tsx}' finds, in a fixed order
CheckOrder ==
  << CFileR, CFileA, CFileIdx, CFileDts,
     TestFileOf(CFileA), TestFileOf(CFileIdx), TestFileOf(CFileDts),
     MockFileOf(CFileA, CFileR), PackageMock(CFileA),
     MockFileOf(CFileIdx, CFileR), PackageMock(CFileIdx) >>

SourceFilesOf(fs) == SelectSeq(CheckOrder, LAMBDA f : f \in fs /\ IsTsFile(f))

\* findAllReferences(targetFile, project, includeTypes)
findAllReferences(fs, ds, txt, targetFile, includeTypes) ==
  Flatten([ i \in DOMAIN SourceFilesOf(fs) |->
              IF SourceFilesOf(fs)[i] = targetFile THEN << >>
              ELSE ReferencesIn(fs, ds, txt, SourceFilesOf(fs)[i],
                                getPathVariations(targetFile), includeTypes) ])

Analysis(filePath, references) ==
  [ filePath |-> filePath, isDeletable |-> (references = << >>),
    references |-> references, error |-> FALSE ]

AnalysisError(filePath) ==
  [ filePath |-> filePath, isDeletable |-> FALSE, references |-> << >>, error |-> TRUE ]

\* analyzeFileDeletability(filePath, includeTypes)
analyzeFileDeletability(fs, ds, txt, filePath, includeTypes) ==
  IF ~Exists(fs, ds, filePath) \/ filePath \notin fs THEN AnalysisError(filePath)
  ELSE Analysis(filePath, findAllReferences(fs, ds, txt, filePath, includeTypes))

----------------------------------------------------------------------------
(* services/check-deletable: execution                                     *)

\* generateImportStatements(exports, './' + fileName), after the import of 'bun:test'
TestText(filePath, ex) ==
  << Decl("import", <<"bun:test">>, FALSE, FALSE) >>
  \o (IF ex.types # {}
      THEN << Decl("import", <<".", "/">> \o BaseNoExt(filePath), TRUE, FALSE) >>
      ELSE << >>)
  \o (IF ex.hasDefault \/ ex.names \ ex.types # {}
      THEN << Decl("import", <<".", "/">> \o BaseNoExt(filePath), FALSE, FALSE) >>
      ELSE << >>)

\* the files createMockStructure writes
MockFiles(analysis) ==
  { MockFileOf(analysis.filePath, analysis.references[i].file) :
      i \in DOMAIN analysis.references }
  \cup (IF \E i \in DOMAIN analysis.references :
             \/ analysis.references[i].type = "dynamic_import"
             \/ analysis.references[i].importedNames = << "*" >>
        THEN { PackageMock(analysis.filePath) } ELSE {})

\* the files phase 2 of checkDeletable writes
Generated(o, analysis) ==
  (IF o.generateTests THEN { TestFileOf(analysis.filePath) } ELSE {})
  \cup (IF o.createMocks THEN MockFiles(analysis) ELSE {})

GeneratedText(o, analysis, ex, f, old) ==
  IF o.generateTests /\ f = TestFileOf(analysis.filePath)
  THEN TestText(analysis.filePath, ex)
  ELSE IF f \in Generated(o, analysis) THEN << >>
  ELSE old[f]

CheckResult(o, analysis) ==
  [ analysis |-> analysis, error |-> analysis.error,
    testFileGenerated |-> IF ~analysis.error /\ o.generateTests
                          THEN TestFileOf(analysis.filePath) ELSE Undefined,
    mockFilesGenerated |-> IF ~analysis.error /\ o.createMocks
                           THEN MockFiles(analysis) ELSE {} ]

CheckOptions == [ includeTypes : BOOLEAN, generateTests : BOOLEAN, createMocks : BOOLEAN ]

CheckInit ==
  /\ files = CheckTargets \cup { CFileR }
  /\ dirs = { Root, <<"/", "u">> }
  /\ exports = [ f \in CheckTargets \cup { CFileR } |-> CheckExports(f) ]
  /\ \E t \in CheckTexts :
       text = [ f \in CheckTargets \cup { CFileR } |-> IF f = CFileR THEN t ELSE << >> ]
  /\ Idle

CallCheckDeletable ==
  /\ pc = "idle"
  /\ Len(hist) < MaxCalls
  /\ \E p \in CheckTargets \cup { RFileGone }, o \in CheckOptions :
       call' = [ op |-> "checkDeletable", filePath |-> p, options |-> o ]
  /\ pc' = "checkDeletable"
  /\ pre' = Snapshot
  /\ UNCHANGED << files, dirs, text, mem, unsaved, queued, updated, result,
                  built, cleanups, log, exports, out, hist >>

\* phase 2 of checkDeletable: the test file and the mock files are written
CheckWrites(o, analysis) ==
  /\ files' = files \cup Generated(o, analysis)
  /\ dirs' = IF o.createMocks THEN dirs \cup { MocksDir(analysis.filePath) } ELSE dirs
  /\ text' = [ f \in files \cup Generated(o, analysis) |->
                 GeneratedText(o, analysis, exports[analysis.filePath], f, text) ]
  /\ exports' = [ f \in files \cup Generated(o, analysis) |->
                    IF f \in files THEN exports[f] ELSE NoExport ]

CheckReturns(o, analysis) ==
  /\ out' = CheckResult(o, analysis)
  /\ hist' = Append(hist, [ call |-> call, out |-> CheckResult(o, analysis),
                            disk |-> Snapshot ])
  /\ IF analysis.error
     THEN UNCHANGED << files, dirs, text, exports >>
     ELSE CheckWrites(o, analysis)
  /\ built' = (call.filePath \in files)
  /\ cleanups' = IF call.filePath \in files THEN cleanups + 1 ELSE cleanups
  /\ result' = IF analysis.error THEN "fail" ELSE "ok"

\* checkDeletable: the analysis with its cleanup, then the optional
\* generation of a test file and of mock files
CheckDeletable ==
  /\ pc = "checkDeletable"
  /\ CheckReturns(call.options,
                  analyzeFileDeletability(files, dirs, text, call.filePath,
                                          call.options.includeTypes))
  /\ pc' = "idle"
  /\ UNCHANGED << call, pre, mem, unsaved, queued, updated, log >>

CheckNext ==
  \/ CallCheckDeletable
  \/ CheckDeletable

CheckSpec == CheckInit /\ [][CheckNext]_vars

----------------------------------------------------------------------------
(* services/dependency-visualization: the universe                         *)

\* src/a.ts, src/b.ts, src/k/c.ts and the declaration file src/y.d.ts
VFileA   == <<"/", "s", "/", "a", ".", "ts">>
VFileB   == <<"/", "s", "/", "b", ".", "ts">>
VFileC   == <<"/", "s", "/", "k", "/", "c", ".", "ts">>
VFileDts == <<"/", "s", "/", "y", ".", "d", ".", "ts">>

VisFiles == { VFileA, VFileB, VFileC, VFileDts }

VDirS == <<"/", "s">>
VDirK == <<"/", "s", "/", "k">>

\* a node imports at most MaxOut modules
MaxOut == 2

\* the module specifiers each file can import
VisSpecifiers(f) ==
  IF f = VFileA THEN << <<".", "/", "b">>, <<".", "/", "k", "/", "c">>, <<"x">> >>
  ELSE IF f = VFileB THEN << <<".", "/", "a">>, <<".", "/", "k", "/", "c">> >>
  ELSE IF f = VFileC THEN << <<".", ".", "/", "a">>, <<".", ".", "/", "b">> >>
  ELSE << >>

\* the sequences of at most MaxOut distinct elements of a sequence
Picks(seq) ==
  { << >> } \cup
  UNION { { [ i \in 1..n |-> seq[c[i]] ] :
              c \in { d \in [ 1..n -> DOMAIN seq ] :
                        \A i, j \in 1..n : i # j => d[i] # d[j] } } :
          n \in 1..MaxOut }

\* the texts of a file: import declarations
VisTexts(f) ==
  { [ i \in DOMAIN p |-> Decl("import", p[i], FALSE, FALSE) ] : p \in Picks(VisSpecifiers(f)) }

----------------------------------------------------------------------------
(* services/dependency-visualization                                       *)

\* ignore: ['**/node_modules/**', '**/dist/**', '**/*.d.ts']
VisIgnored(rel, includeNodeModules) ==
  \/ \E i \in DOMAIN rel : rel[i] = "dist" /\ i < Len(rel)
  \/ ~includeNodeModules /\ \E i \in DOMAIN rel : rel[i] = "node_modules" /\ i < Len(rel)
  \/ EndsWith(rel, <<".", "d", ".", "ts">>)

InRoot(f, rootPath) == rootPath = Root \/ Under(f, rootPath)

\* the order in which glob returns the files
VisOrder == << VFileA, VFileB, VFileC, VFileDts >>

\* glob('**/*.{ts,tsx}', { cwd: rootPath, ignore, absolute: true })
VisGlob(fs, rootPath, includeNodeModules) ==
  SelectSeq(VisOrder,
            LAMBDA f : /\ f \in fs
                       /\ IsTsFile(f)
                       /\ InRoot(f, rootPath)
                       /\ ~VisIgnored(PathRelative(rootPath, f), includeNodeModules))

\* relativePath.split(path.sep).length
Depth(rel) == 1 + Cardinality({ i \in DOMAIN rel : rel[i] = "/" })

\* the id of an import: relative specifiers are resolved and made relative
\* to rootPath, the others are kept
ImportId(filePath, rootPath, moduleSpecifier) ==
  IF StartsWith(moduleSpecifier, Dot)
  THEN PathRelative(rootPath, PathResolve(Dirname(filePath), moduleSpecifier))
  ELSE moduleSpecifier

\* createDependencyNode(sourceFile, rootPath)
createDependencyNode(tx, filePath, rootPath) ==
  [ id |-> PathRelative(rootPath, filePath),
    filePath |-> filePath,
    imports |-> [ i \in DOMAIN tx[filePath] |->
                    ImportId(filePath, rootPath, tx[filePath][i].spec) ] ]

\* buildDependencyGraph(project, rootPath, maxDepth)
buildDependencyGraph(tx, sourceFiles, rootPath, maxDepth) ==
  [ i \in DOMAIN SelectSeq(sourceFiles,
                           LAMBDA f : Depth(PathRelative(rootPath, f)) <= maxDepth) |->
      createDependencyNode(tx,
        SelectSeq(sourceFiles,
                  LAMBDA f : Depth(PathRelative(rootPath, f)) <= maxDepth)[i],
        rootPath) ]

\* nodeMap.get(nodeId): the last node with the id
HasNode(nodes, nodeId) == \E i \in DOMAIN nodes : nodes[i].id = nodeId

NodeOf(nodes, nodeId) ==
  nodes[CHOOSE i \in DOMAIN nodes :
          /\ nodes[i].id = nodeId
          /\ \A j \in DOMAIN nodes : nodes[j].id = nodeId => j <= i]

CycleStart(path, nodeId) == MinOf({ i \in DOMAIN path : path[i] = nodeId })

WholePath(path, nodeId) == path \o << nodeId >>

\* path.slice(cycleStart).concat(nodeId)
CycleOf(path, nodeId) ==
  SubSeq(path, CycleStart(path, nodeId), Len(path)) \o << nodeId >>

\* the entry pushed for a cycle
Circular(cycle) ==
  [ cycle |-> cycle,
    severity |-> IF Len(cycle) > 3 THEN "error" ELSE "warning" ]

CycleFound(st, path, nodeId) ==
  [ st EXCEPT !.circularDeps = Append(@, Circular(CycleOf(path, nodeId))) ]

EnterUnvisited(st, nodeId) ==
  [ st EXCEPT !.recursionStack = @ \cup { nodeId }, !.entered = Append(@, nodeId) ]

\* visited.add(nodeId); recursionStack.add(nodeId).  entered is the observed
\* order in which dfs bodies run (one entry per traversal of an import list)
Enter(st, nodeId) ==
  [ st EXCEPT !.visited = @ \cup { nodeId }, !.recursionStack = @ \cup { nodeId },
              !.entered = Append(@, nodeId) ]

\* observation of one call dfs(nodeId, path): the recursion stack it finds
Observe(st, nodeId, path) ==
  [ st EXCEPT !.steps = @ \cup { [ nodeId |-> nodeId, path |-> path,
                                    stack |-> st.recursionStack ] } ]

Leave(st, nodeId) == [ st EXCEPT !.recursionStack = @ \ { nodeId } ]

FollowAll(importPath) == TRUE

\* !importPath.startsWith('.') skips the import
IsFollowed(importPath) == StartsWith(importPath, Dot)

RECURSIVE dfs(_, _, _, _)
RECURSIVE dfsImports(_, _, _, _, _)

\* the loop over node.imports inside dfs
dfsImports(nodes, imports, nodeId, path, st) ==
  IF imports = << >> THEN st
  ELSE dfsImports(nodes, Tail(imports), nodeId, path,
                  IF IsFollowed(Head(imports))
                  THEN dfs(nodes, Head(imports), path \o << nodeId >>, st)
                  ELSE st)

\* the body of dfs after its two early returns
dfsBody(nodes, nodeId, path, st) ==
  Leave(IF HasNode(nodes, nodeId)
        THEN dfsImports(nodes, NodeOf(nodes, nodeId).imports, nodeId, path,
                        Enter(st, nodeId))
        ELSE Enter(st, nodeId),
        nodeId)

\* dfs(nodeId, path)
dfs(nodes, nodeId, path, st) ==
  IF nodeId \in st.recursionStack THEN CycleFound(Observe(st, nodeId, path), path, nodeId)
  ELSE IF nodeId \in st.visited THEN Observe(st, nodeId, path)
  ELSE dfsBody(nodes, nodeId, path, Observe(st, nodeId, path))

RECURSIVE dfsAll(_, _, _)
\* the loop over the nodes at the end of detectCircularDependencies
dfsAll(nodes, rest, st) ==
  IF rest = << >> THEN st
  ELSE dfsAll(nodes, Tail(rest),
              IF Head(rest).id \in st.visited THEN st
              ELSE dfs(nodes, Head(rest).id, << >>, st))

\* the state of detectCircularDependencies when its loop over the nodes ends
detectState(nodes) ==
  dfsAll(nodes, nodes,
         [ circularDeps |-> << >>, visited |-> {}, recursionStack |-> {},
           entered |-> << >>, steps |-> {} ])

\* detectCircularDependencies(nodes)
detectCircularDependencies(nodes) == detectState(nodes).circularDeps

RECURSIVE SumImports(_)
SumImports(nodes) ==
  IF nodes = << >> THEN 0 ELSE Len(Head(nodes).imports) + SumImports(Tail(nodes))

RECURSIVE calculateMaxDepth(_, _)
\* calculateMaxDepth(nodes, rootPath)
calculateMaxDepth(nodes, rootPath) ==
  IF nodes = << >> THEN 0
  ELSE MaxOf2(Depth(PathRelative(rootPath, Head(nodes).filePath)),
              calculateMaxDepth(Tail(nodes), rootPath))

VisResult(nodes, circularDependencies, rootPath) ==
  [ nodes |-> nodes,
    circularDependencies |-> circularDependencies,
    statistics |-> [ totalFiles |-> Len(nodes),
                     totalImports |-> SumImports(nodes),
                     maxDepth |-> calculateMaxDepth(nodes, rootPath),
                     circularCount |-> Len(circularDependencies) ] ]

VisOptions ==
  [ rootPath : { Root, VDirS, VDirK }, includeNodeModules : { FALSE },
    maxDepth : { 2, 10 }, detectCircular : BOOLEAN ]

VisInit ==
  /\ files = VisFiles
  /\ dirs = { Root, VDirS, VDirK }
  /\ exports = [ f \in VisFiles |-> NoExport ]
  /\ \E ta \in VisTexts(VFileA), tb \in VisTexts(VFileB), tc \in VisTexts(VFileC) :
       text = [ f \in VisFiles |->
                  IF f = VFileA THEN ta
                  ELSE IF f = VFileB THEN tb
                  ELSE IF f = VFileC THEN tc
                  ELSE << >> ]
  /\ Idle

CallVisualize ==
  /\ pc = "idle"
  /\ Len(hist) < MaxCalls
  /\ \E o \in VisOptions :
       call' = [ op |-> "visualizeDependencies", options |-> o ]
  /\ pc' = "visualizeDependencies"
  /\ pre' = Snapshot
  /\ UNCHANGED << files, dirs, text, mem, unsaved, queued, updated, result,
                  built, cleanups, log, exports, out, hist >>

VisReturns(o, nodes) ==
  /\ out' = VisResult(nodes,
                      IF o.detectCircular THEN detectCircularDependencies(nodes) ELSE << >>,
                      o.rootPath)
  /\ hist' = Append(hist, [ call |-> call, disk |-> Snapshot,
                            out |-> VisResult(nodes,
                                      IF o.detectCircular
                                      THEN detectCircularDependencies(nodes) ELSE << >>,
                                      o.rootPath) ])

\* visualizeDependencies: the files are found and loaded, the graph is
\* built and searched for cycles, the project is cleaned up
VisualizeDependencies ==
  /\ pc = "visualizeDependencies"
  /\ VisReturns(call.options,
                buildDependencyGraph(text,
                  VisGlob(files, call.options.rootPath, call.options.includeNodeModules),
                  call.options.rootPath, call.options.maxDepth))
  /\ built' = TRUE
  /\ cleanups' = cleanups + 1
  /\ result' = "ok"
  /\ pc' = "idle"
  /\ UNCHANGED << files, dirs, text, exports, call, pre, mem, unsaved, queued, updated, log >>

VisNext ==
  \/ CallVisualize
  \/ VisualizeDependencies

VisSpec == VisInit /\ [][VisNext]_vars

----------------------------------------------------------------------------
(* detectCircularDependencies on graphs with relative ids                  *)

\* the graphs have between 1 and MaxNodes nodes
MaxNodes == 4

\* './a', './b', './c', './d', './e', and the package 'x'
NodeIds ==
  << <<".", "/", "a">>, <<".", "/", "b">>, <<".", "/", "c">>,
     <<".", "/", "d">>, <<".", "/", "e">> >>

External == <<"x">>

\* a relative id that is no node of the graph
Missing == <<".", "/", "z">>

\* the import lists of a node of a graph with n nodes: at most MaxOut ids,
\* in the order of NodeIds, then the id that is no node, the package last
ImportLists(n) ==
  { << >> } \cup
  UNION { { [ i \in 1..m |-> IF c[i] = n + 2 THEN External
                              ELSE IF c[i] = n + 1 THEN Missing
                              ELSE NodeIds[c[i]] ] :
              c \in { d \in [ 1..m -> 1..(n + 2) ] :
                        \A i, j \in 1..m : i < j => d[i] < d[j] } } :
          m \in 1..MaxOut }

\* the graph of n nodes with the import lists im
Graph(n, im) ==
  [ i \in 1..n |-> [ id |-> NodeIds[i], filePath |-> NodeIds[i], imports |-> im[i] ] ]

\* a node whose id is the package name: it imports './a'
PackageNode(pkg) ==
  IF pkg THEN << [ id |-> External, filePath |-> External, imports |-> << NodeIds[1] >> ] >>
  ELSE << >>

DetectInit ==
  /\ files = {}
  /\ dirs = { Root }
  /\ exports = << >>
  /\ text = << >>
  /\ pc = "detectCircularDependencies"
  /\ \E n \in 1..MaxNodes : \E im \in [ 1..n -> ImportLists(n) ] :
       \E pkg \in BOOLEAN :
         /\ pkg => n < MaxNodes
         /\ call = [ op |-> "detectCircularDependencies",
                     nodes |-> Graph(n, im) \o PackageNode(pkg) ]
  /\ pre = [ files |-> {}, dirs |-> {}, text |-> << >> ]
  /\ mem = << >>
  /\ unsaved = {}
  /\ queued = {}
  /\ updated = {}
  /\ result = "none"
  /\ built = FALSE
  /\ cleanups = 0
  /\ log = << >>
  /\ out = NoCall
  /\ hist = << >>

\* detectCircularDependencies applied to the graph
DetectCircular ==
  /\ pc = "detectCircularDependencies"
  /\ out' = [ circularDependencies |-> detectCircularDependencies(call.nodes) ]
  /\ hist' = Append(hist, [ call |-> call,
                            out |-> [ circularDependencies |->
                                        detectCircularDependencies(call.nodes) ],
                            state |-> detectState(call.nodes) ])
  /\ pc' = "idle"
  /\ UNCHANGED << files, dirs, text, exports, call, pre, mem, unsaved, queued,
                  updated, result, built, cleanups, log >>

DetectNext == DetectCircular

DetectSpec == DetectInit /\ [][DetectNext]_vars

----------------------------------------------------------------------------
(* The resolvers of the three services on the same disk                    *)

\* the importing file and the files a specifier of module m can resolve to
SFileT == <<"/", "t", ".", "ts">>

ResolveFiles ==
  { <<"/", "m", ".", "ts">>, <<"/", "m", ".", "j", "s">>, <<"/", "m", ".", "d", ".", "ts">>,
    <<"/", "m", "/", "index", ".", "ts">>, <<"/", "m", "/", "index", ".", "d", ".", "ts">> }

SDirM == <<"/", "m">>

\* './m', './m.ts', './m/index', './z'
ResolveSpecifiers ==
  { <<".", "/", "m">>, <<".", "/", "m", ".", "ts">>,
    <<".", "/", "m", "/", "index">>, <<".", "/", "z">> }

ResolveInit ==
  /\ \E fs \in SUBSET ResolveFiles, d \in BOOLEAN :
       /\ files = fs \cup { SFileT }
       /\ dirs = { Root } \cup (IF d \/ \E f \in fs : Dirname(f) = SDirM
                                THEN { SDirM } ELSE {})
       /\ text = [ f \in fs \cup { SFileT } |-> << >> ]
       /\ exports = [ f \in fs \cup { SFileT } |-> NoExport ]
  /\ Idle

Resolved(resolver, importPath, resolvedPath) ==
  /\ out' = resolvedPath
  /\ hist' = Append(hist, [ call |-> [ op |-> "resolve", resolver |-> resolver,
                                       fromFile |-> SFileT, importPath |-> importPath ],
                            out |-> resolvedPath, disk |-> Snapshot ])
  /\ UNCHANGED << files, dirs, text, exports, pc, call, pre, mem, unsaved, queued,
                  updated, result, built, cleanups, log >>

\* resolveImportPath of services/file-rename
ResolveForRename ==
  /\ pc = "idle"
  /\ Len(hist) < MaxCalls
  /\ \E s \in ResolveSpecifiers :
       Resolved("rename", s, resolveImportPath(files, dirs, SFileT, s))

\* resolveImportPath of services/import-path-repair
ResolveForRepair ==
  /\ pc = "idle"
  /\ Len(hist) < MaxCalls
  /\ \E s \in ResolveSpecifiers :
       Resolved("repair", s, repairResolveImportPath(files, dirs, SFileT, s))

\* resolveModulePath of services/check-deletable
ResolveForCheck ==
  /\ pc = "idle"
  /\ Len(hist) < MaxCalls
  /\ \E s \in ResolveSpecifiers :
       Resolved("check-deletable", s, resolveModulePath(files, dirs, SFileT, s))

ResolveNext ==
  \/ ResolveForRename
  \/ ResolveForRepair
  \/ ResolveForCheck

ResolveSpec == ResolveInit /\ [][ResolveNext]_vars

----------------------------------------------------------------------------
(* scoreCandidates on directories drawn from a tree                        *)

\* the directories are at most MaxDirDepth levels below the root
MaxDirDepth == 3

DirNames == { "a", "b" }

\* the directories of the tree, as sequences of names
DirSegs == UNION { [ 1..n -> DirNames ] : n \in 0..MaxDirDepth }

\* the file m.ts in the directory
FileIn(segs) == PathJoin(FromSegs([ i \in DOMAIN segs |-> << segs[i] >> ]), <<"m", ".", "ts">>)

ScoreInit ==
  /\ files = {}
  /\ dirs = { Root }
  /\ exports = << >>
  /\ text = << >>
  /\ pc = "scoreCandidates"
  /\ \E d \in DirSegs, c1 \in DirSegs, c2 \in DirSegs :
       call = [ op |-> "scoreCandidates", currentFilePath |-> FileIn(d),
                candidates |-> << FileIn(c1), FileIn(c2) >> ]
  /\ pre = [ files |-> {}, dirs |-> {}, text |-> << >> ]
  /\ mem = << >>
  /\ unsaved = {}
  /\ queued = {}
  /\ updated = {}
  /\ result = "none"
  /\ built = FALSE
  /\ cleanups = 0
  /\ log = << >>
  /\ out = NoCall
  /\ hist = << >>

\* the distance scoreCandidates gives each candidate
Distances(currentFilePath, candidates) ==
  [ i \in DOMAIN candidates |->
      calculateDirectoryDistance(Dirname(currentFilePath), Dirname(candidates[i])) ]

\* scoreCandidates applied to the candidates
ScoreCandidates ==
  /\ pc = "scoreCandidates"
  /\ out' = Distances(call.currentFilePath, call.candidates)
  /\ hist' = Append(hist, [ call |-> call,
                            out |-> Distances(call.currentFilePath, call.candidates) ])
  /\ pc' = "idle"
  /\ UNCHANGED << files, dirs, text, exports, call, pre, mem, unsaved, queued,
                  updated, result, built, cleanups, log >>

ScoreNext == ScoreCandidates

ScoreSpec == ScoreInit /\ [][ScoreNext]_vars

----------------------------------------------------------------------------
(* Properties of repairImportPaths                                         *)

\* the repair runs that have returned
RepairRuns == { k \in DOMAIN hist : hist[k].call.op = "repair" }

\* the probe order of section 4.1: the literal path, the path with each
\* extension, the index file of the path with each extension
StatedProbes(target) == << target >> \o RepairProbes(target)

\* the specifier resolves to an existing file under the stated probe order
StatedResolves(fromFile, specifier) ==
  \E i \in DOMAIN StatedProbes(PathResolve(Dirname(fromFile), specifier)) :
    StatedProbes(PathResolve(Dirname(fromFile), specifier))[i] \in files

ValidImport(fromFile, specifier) ==
  IsExternal(specifier) \/ StatedResolves(fromFile, specifier)

ReportedValid(run, i) ==
  /\ run.out.repairedImports[i].status = "already_valid"
  /\ run.out.repairedImports[i].repairedPath = Undefined
  /\ run.held[i].spec = run.before[i].spec
  /\ run.after[i].spec = run.before[i].spec

\* C11: every import whose specifier is external or resolves to an existing
\* file (literal path, then path + extension, then path/index + extension)
\* is reported already_valid with repairedPath null and keeps its
\* specifier; a valid specifier written with its extension is never repaired.
C11_ValidUntouched ==
  \A k \in RepairRuns : \A i \in DOMAIN hist[k].before :
    ValidImport(hist[k].call.filePath, hist[k].before[i].spec) => ReportedValid(hist[k], i)

\* the import declaration i of a run, and its result
DeclOf(run, i) == run.before[i]
ResultOf(run, i) == run.out.repairedImports[i]

\* the export match of a file for an import declaration: a default import
\* wants a default export, any other import wants every imported name
ExportMatch(f, decl) ==
  IF decl.importType = "default" THEN exports[f].hasDefault
  ELSE decl.named \subseteq exports[f].names

DistanceTo(fromFile, f) == calculateDirectoryDistance(Dirname(fromFile), Dirname(f))

SimilarityTo(decl, f) == calculateSimilarity(getFileNameFromPath(decl.spec), BaseNoExt(f))

Greater(x, y) == x.num * y.den > y.num * x.den

\* d comes before c in the order: export match, then distance, then similarity
Beats(fromFile, decl, d, c) ==
  \/ ExportMatch(d, decl) /\ ~ExportMatch(c, decl)
  \/ /\ ExportMatch(d, decl) = ExportMatch(c, decl)
     /\ DistanceTo(fromFile, d) < DistanceTo(fromFile, c)
  \/ /\ ExportMatch(d, decl) = ExportMatch(c, decl)
     /\ DistanceTo(fromFile, d) = DistanceTo(fromFile, c)
     /\ Greater(SimilarityTo(decl, d), SimilarityTo(decl, c))

Unbeaten(run, i) ==
  /\ ResultOf(run, i).selectedFile \in ResultOf(run, i).candidateFiles
  /\ \A d \in ResultOf(run, i).candidateFiles :
       ~Beats(run.call.filePath, DeclOf(run, i), d, ResultOf(run, i).selectedFile)

\* the files of the search that export every required name
Matching(run, i) ==
  { f \in ResultOf(run, i).candidateFiles : ExportMatch(f, DeclOf(run, i)) }

\* C12: the candidate repair selects is one that no other candidate beats
\* under the order (export match, smaller directory distance, greater name
\* similarity); when only one of the files found exports every required
\* name, that file is selected, and a search that finds files ends repaired.
C12_BestCandidate ==
  \A k \in RepairRuns : \A i \in DOMAIN hist[k].before :
    /\ ResultOf(hist[k], i).status = "repaired" => Unbeaten(hist[k], i)
    /\ ResultOf(hist[k], i).candidateFiles # {} => ResultOf(hist[k], i).status = "repaired"
    /\ \A f \in Matching(hist[k], i) :
         Matching(hist[k], i) = { f } => ResultOf(hist[k], i).selectedFile = f

\* the scenario of the test: './w/m' with { add, multiply }, two files named
\* m.ts, the one farther away is the only one that exports both names and
\* it is selected
C12_Witness ==
  \E k \in RepairRuns : \E i \in DOMAIN hist[k].before :
    /\ DeclOf(hist[k], i).spec = SpecWrong
    /\ DeclOf(hist[k], i).named = { "add", "multiply" }
    /\ { RMathU, RMathA } \subseteq ResultOf(hist[k], i).candidateFiles
    /\ Matching(hist[k], i) = { RMathU }
    /\ ResultOf(hist[k], i).status = "repaired"
    /\ ResultOf(hist[k], i).selectedFile = RMathU

\* a repair run that follows a repair run that was not a dry run reports no
\* repaired import and leaves the text as it was
RepairIdempotent ==
  \A k \in RepairRuns :
    (k > 1 /\ (k - 1) \in RepairRuns /\ ~hist[k - 1].call.dryRun)
      => /\ hist[k].out.totalImportsRepaired = 0
         /\ hist[k].after = hist[k].before
         /\ hist[k].before = hist[k - 1].after

----------------------------------------------------------------------------
(* Properties of optimizeImports                                           *)

OptimizeRuns == { k \in DOMAIN hist : hist[k].call.op = "optimize" }

\* run k works on the file that run k - 1 of the same operation, with the
\* same options, has left
SecondRun(k) ==
  /\ k > 1
  /\ hist[k - 1].call = hist[k].call
  /\ ~hist[k - 1].out.error

\* C13: idempotence.  After optimizeImports has been applied to a file,
\* running it again on the resulting file reports optimized = false with an
\* empty change list and leaves the text unchanged; after a repair that was
\* not a dry run, a second repair reports no repaired import.
C13_Idempotent ==
  /\ \A k \in OptimizeRuns :
       SecondRun(k) => /\ ~hist[k].out.optimized
                       /\ hist[k].out.changes = << >>
                       /\ hist[k].after = hist[k].before
  /\ RepairIdempotent

DryRuns == { k \in RepairRuns : hist[k].call.dryRun }
WetRuns == { k \in RepairRuns : ~hist[k].call.dryRun }

\* the statuses, repaired paths and counters of a run
Outcome(run) ==
  [ statuses |-> [ i \in DOMAIN run.out.repairedImports |-> run.out.repairedImports[i].status ],
    paths |-> [ i \in DOMAIN run.out.repairedImports |-> run.out.repairedImports[i].repairedPath ],
    checked |-> run.out.totalImportsChecked,
    repaired |-> run.out.totalImportsRepaired ]

\* the runs that wrote the file
SavingRuns == { k \in WetRuns : hist[k].out.totalImportsRepaired > 0 }

\* C14: a dry run of repair changes no specifier and never saves the file,
\* and returns the statuses, repaired paths and counters of a run that is
\* not dry on the same input; a run that is not dry saves the file only if
\* it repaired at least one import.
C14_DryRun ==
  /\ \A k \in DryRuns :
       /\ hist[k].held = hist[k].before
       /\ hist[k].after = hist[k].before
       /\ ~hist[k].saved
  /\ \A k \in DryRuns : \A l \in WetRuns :
       hist[k].before = hist[l].before => Outcome(hist[k]) = Outcome(hist[l])
  /\ \A l \in WetRuns : hist[l].saved => hist[l].out.totalImportsRepaired > 0
  /\ Len(log) = Cardinality(SavingRuns)

\* a dry run and then a run that is not dry on the same text, which repairs
\* an import and saves
C14_Witness ==
  \E k \in DryRuns : \E l \in WetRuns :
    /\ hist[k].before = hist[l].before
    /\ hist[k].out.totalImportsRepaired > 0
    /\ hist[l].saved
    /\ hist[l].after # hist[l].before
    /\ Len(log) = 1

----------------------------------------------------------------------------
(* Properties of checkDeletable                                            *)

\* the checkDeletable runs that have returned
CheckRuns == { k \in DOMAIN hist : hist[k].call.op = "checkDeletable" }

\* the first existing path of the probe order of section 4.1
StatedFirst(disk, fromFile, specifier) ==
  RepairFirstProbe(disk.files, disk.dirs,
                   StatedProbes(PathResolve(Dirname(fromFile), specifier)))

\* the path variations of the target: the path, the path without extension,
\* and for an index.* file its containing directory
StatedVariations(target) ==
  { target, DropLast(target, Len(Extname(target))) }
    \cup (IF Head(Basename(target)) = "index" THEN { Dirname(target) } ELSE {})

\* the declaration is a static import, a re-export or a dynamic import that
\* resolves to the target; type-only declarations count when includeTypes is set
RefersToTarget(run, fromFile, d) ==
  /\ d.kind \in { "import", "export", "dynamic" }
  /\ StartsWith(d.spec, Dot)
  /\ run.call.options.includeTypes \/ ~d.typeOnly
  /\ StatedFirst(run.disk, fromFile, d.spec) \in StatedVariations(run.call.filePath)

Referenced(run) ==
  \E f \in run.disk.files \ { run.call.filePath } :
    /\ IsTsFile(f)
    /\ \E i \in DOMAIN run.disk.text[f] : RefersToTarget(run, f, run.disk.text[f][i])

\* C15: checkDeletable returns isDeletable = true exactly when the analysis
\* finished without error and no other project file holds a static import, a
\* re-export or a dynamic import whose specifier resolves to the target or
\* to one of its path variations; then the reference list is empty, and in
\* every error case isDeletable is false.
C15_DeletableIffUnreferenced ==
  \A k \in CheckRuns :
    /\ hist[k].out.analysis.isDeletable <=> (~hist[k].out.error /\ ~Referenced(hist[k]))
    /\ hist[k].out.analysis.isDeletable => hist[k].out.analysis.references = << >>
    /\ hist[k].out.error => ~hist[k].out.analysis.isDeletable

\* every declaration of another project file that resolves to the target
\* is type-only
OnlyTypeReferences(run) ==
  \A f \in run.disk.files \ { run.call.filePath } :
    \A i \in DOMAIN run.disk.text[f] :
      ( /\ IsTsFile(f)
        /\ StartsWith(run.disk.text[f][i].spec, Dot)
        /\ StatedFirst(run.disk, f, run.disk.text[f][i].spec)
             \in StatedVariations(run.call.filePath) )
      => run.disk.text[f][i].typeOnly

NoTypeOnlyReference(run) ==
  \A i \in DOMAIN run.out.analysis.references :
    ~run.out.analysis.references[i].isTypeOnly

\* C16: with includeTypes = false the scanner skips every record whose
\* import or export declaration is type-only: no returned reference has
\* isTypeOnly = true, and a file referenced only through type-only imports
\* or type-only re-exports is reported deletable.
C16_TypeOnlySkipped ==
  \A k \in CheckRuns :
    (~hist[k].call.options.includeTypes /\ ~hist[k].out.error) =>
      /\ NoTypeOnlyReference(hist[k])
      /\ OnlyTypeReferences(hist[k]) => hist[k].out.analysis.isDeletable

----------------------------------------------------------------------------
(* Properties of the cycle detection                                       *)

\* the runs of detectCircularDependencies on a graph
DetectRuns == { k \in DOMAIN hist : hist[k].call.op = "detectCircularDependencies" }

\* node i of the graph imports node j by a relative id
Imports(g, i, j) ==
  /\ StartsWith(g[j].id, Dot)
  /\ \E m \in DOMAIN g[i].imports : g[i].imports[m] = g[j].id

\* the simple cycles of the graph: sequences of distinct nodes, each
\* importing the next and the last importing the first, written from their
\* smallest node
SimpleCycles(g) ==
  UNION { { c \in [ 1..n -> DOMAIN g ] :
              /\ \A i, j \in 1..n : i # j => c[i] # c[j]
              /\ \A i \in 1..n : c[1] <= c[i]
              /\ \A i \in 1..n : Imports(g, c[i], c[(i % n) + 1]) } :
          n \in 1..Len(g) }

\* the only cycle of the graph has n nodes
OnlyCycle(g, n) ==
  /\ Cardinality(SimpleCycles(g)) = 1
  /\ \A c \in SimpleCycles(g) : Len(c) = n

OneCycle(run, severity) ==
  /\ Len(run.out.circularDependencies) = 1
  /\ run.out.circularDependencies[1].severity = severity

\* C17: for a graph whose only cycle has 3 nodes, cycle detection reports
\* exactly one Cycle and its severity is warning; for a graph whose only
\* cycle has 4 nodes it reports exactly one Cycle with severity error.
C17_Severity ==
  \A k \in DetectRuns :
    /\ OnlyCycle(hist[k].call.nodes, 3) => OneCycle(hist[k], "warning")
    /\ OnlyCycle(hist[k].call.nodes, 4) => OneCycle(hist[k], "error")

\* the visualizeDependencies runs that have returned
VisRuns == { k \in DOMAIN hist : hist[k].call.op = "visualizeDependencies" }

\* the files of the analysed project: the source files under rootPath
\* within maxDepth
Analysed(run) ==
  { f \in run.disk.files :
      /\ IsTsFile(f)
      /\ ~EndsWith(f, <<".", "d", ".", "ts">>)
      /\ InRoot(f, run.call.options.rootPath)
      /\ Depth(PathRelative(run.call.options.rootPath, f)) <= run.call.options.maxDepth }

\* file f imports file g through a relative specifier
ImportsFile(run, f, g) ==
  \E i \in DOMAIN run.disk.text[f] :
    /\ StartsWith(run.disk.text[f][i].spec, Dot)
    /\ StatedFirst(run.disk, f, run.disk.text[f][i].spec) = g

\* g is reached from f in at most n imports between analysed files
RECURSIVE ReachedIn(_, _, _, _)
ReachedIn(run, f, g, n) ==
  /\ n > 0
  /\ \/ ImportsFile(run, f, g)
     \/ \E h \in Analysed(run) : ImportsFile(run, f, h) /\ ReachedIn(run, h, g, n - 1)

\* analysed files import each other in a cycle
ImportCycle(run) ==
  \E f \in Analysed(run) : ReachedIn(run, f, f, Cardinality(Analysed(run)))

\* C18: visualizeDependencies with detectCircular = true identifies the
\* circular dependencies of the analysed project: whenever files under
\* rootPath import each other in a cycle through relative specifiers,
\* circularDependencies is non-empty, and statistics.circularCount equals
\* its length.
C18_CyclesIdentified ==
  \A k \in VisRuns :
    hist[k].call.options.detectCircular =>
      /\ ImportCycle(hist[k]) => hist[k].out.circularDependencies # << >>
      /\ hist[k].out.statistics.circularCount = Len(hist[k].out.circularDependencies)

----------------------------------------------------------------------------
(* Properties of the resolvers                                             *)

\* the resolutions that have returned
ResolveRuns == { k \in DOMAIN hist : hist[k].call.op = "resolve" }

\* C19: every resolver used by the operations (rename, repair,
\* check-deletable) maps a relative specifier to the first existing path in
\* the order: the literal path; path + .ts, .tsx, .js, .jsx, .d.ts;
\* path/index + the same extensions, and reports unresolved when none exists.
C19_ProbeOrder ==
  \A k \in ResolveRuns :
    hist[k].out = StatedFirst(hist[k].disk, hist[k].call.fromFile, hist[k].call.importPath)

----------------------------------------------------------------------------
(* Properties of renameFileOrFolder: specifiers that are not relative      *)

\* reference i of file f does not start with '.'
NotRelative(f, i) == ~StartsWith(SpecBefore(f, i), Dot)

\* the source file holds references and none of them starts with '.'
OnlyNotRelative(f) ==
  /\ pre.text[f] # << >>
  /\ \A i \in DOMAIN pre.text[f] : NotRelative(f, i)

\* affectedImports holds an entry for file f
Affected(f) ==
  FileModified(pre.files, pre.dirs, f, pre.text[f], Normalize(call.source),
               call.source \in pre.dirs)

\* C20: renameFileOrFolder never changes a specifier that does not start
\* with '.': its text after the operation equals its text before, and a file
\* containing only such specifiers is listed neither in updatedFiles nor in
\* affectedImports.
C20_NotRelativeUntouched ==
  RenameDone =>
    \A f \in ProjectFiles(pre.files) :
      /\ \A i \in DOMAIN pre.text[f] :
           NotRelative(f, i) => SpecAfter(f, i) = SpecBefore(f, i)
      /\ OnlyNotRelative(f) => (f \notin updated /\ ~Affected(f))

----------------------------------------------------------------------------
(* Properties of repairImportPaths: the search                             *)

\* import i of the run went to the project search
Searched(run, i) == ResultOf(run, i).status # "already_valid"

\* the files the project search finds for import i
SearchOf(run, i) ==
  IF getFileNameFromPath(DeclOf(run, i).spec) = << >> THEN {}
  ELSE findFilesByName(files, RepairRootDir(run.call.filePath),
                       getFileNameFromPath(DeclOf(run, i).spec))

\* C21: repair never hard-fails on export mismatch: whenever the project
\* search finds at least one candidate file for the broken specifier, the
\* outcome is repaired with selectedFile one of the candidates, even when no
\* candidate satisfies the default or named export requirement; not_found is
\* returned only when the search finds no candidate (or no file name can be
\* extracted).
C21_NeverHardFails ==
  \A k \in RepairRuns : \A i \in DOMAIN hist[k].before :
    Searched(hist[k], i) =>
      /\ SearchOf(hist[k], i) # {} =>
           /\ ResultOf(hist[k], i).status = "repaired"
           /\ ResultOf(hist[k], i).selectedFile \in SearchOf(hist[k], i)
      /\ ResultOf(hist[k], i).status = "not_found" => SearchOf(hist[k], i) = {}

\* a named import and a default import whose required exports no candidate
\* has were both repaired, and an import whose search found nothing was not
C21_Witness ==
  \E k \in RepairRuns : \E i, j \in DOMAIN hist[k].before :
    /\ Searched(hist[k], i)
    /\ SearchOf(hist[k], i) # {}
    /\ Matching(hist[k], i) = {}
    /\ DeclOf(hist[k], i).importType \in { "named", "default" }
    /\ ResultOf(hist[k], i).status = "repaired"
    /\ ResultOf(hist[k], j).status = "not_found"
    /\ SearchOf(hist[k], j) = {}

----------------------------------------------------------------------------
(* Properties of the directory distance                                    *)

ScoreRuns == { k \in DOMAIN hist : hist[k].call.op = "scoreCandidates" }

\* the number of segments two directories have in common
SharedSegs(d1, d2) == CommonLen(AbsSegs(d1), AbsSegs(d2))

\* the stated cost: one for each descending segment of the relative path
\* from d1 to d2, two for each '..'
StatedDistance(d1, d2) ==
  (Len(AbsSegs(d2)) - SharedSegs(d1, d2)) + 2 * (Len(AbsSegs(d1)) - SharedSegs(d1, d2))

ImporterDir(run) == Dirname(run.call.currentFilePath)
CandidateDir(run, i) == Dirname(run.call.candidates[i])

\* C22: the directory distance from the importer directory D1 to the
\* candidate directory D2 equals the number of descending segments of the
\* relative path plus twice the number of '..' segments; it is a
\* non-negative integer, it is 0 when D2 = D1, and a candidate in the
\* importer's own directory is strictly closer than one in a child directory.
C22_DistanceCost ==
  \A k \in ScoreRuns : \A i, j \in DOMAIN hist[k].out :
    /\ hist[k].out[i] = StatedDistance(ImporterDir(hist[k]), CandidateDir(hist[k], i))
    /\ hist[k].out[i] \in Nat
    /\ CandidateDir(hist[k], i) = ImporterDir(hist[k]) => hist[k].out[i] = 0
    /\ ( /\ CandidateDir(hist[k], i) = ImporterDir(hist[k])
         /\ CandidateDir(hist[k], j) # ImporterDir(hist[k])
         /\ Under(CandidateDir(hist[k], j) \o <<"/">>, ImporterDir(hist[k])) )
       => hist[k].out[i] < hist[k].out[j]

\* the cycles a run reported
CyclesOf(run) == run.out.circularDependencies

\* the node at which reported cycle i closes
ClosesAt(run, i) == CyclesOf(run)[i].cycle[Len(CyclesOf(run)[i].cycle)]

\* C23: cycle detection reports at most one cycle per re-entry point: no two
\* reported cycles close at the same node, so the number of reported cycles
\* never exceeds the number of nodes.
C23_OnePerReentry ==
  \A k \in DetectRuns :
    /\ \A i, j \in DOMAIN CyclesOf(hist[k]) :
         i # j => ClosesAt(hist[k], i) # ClosesAt(hist[k], j)
    /\ Len(CyclesOf(hist[k])) <= Len(hist[k].call.nodes)

\* ---------------------------------------------------------------------
\* closed walks and the recursion stack
Edge(g, x, y) ==
  \E i \in DOMAIN g : g[i].id = x /\ \E m \in DOMAIN g[i].imports : g[i].imports[m] = y

ClosedWalk(g, c) ==
  /\ Len(c) >= 2
  /\ c[1] = c[Len(c)]
  /\ \A i, j \in 1..(Len(c) - 1) : i # j => c[i] # c[j]
  /\ \A i \in 1..(Len(c) - 1) : Edge(g, c[i], c[i + 1])

\* the suffix of the DFS path from the re-entered node, followed by that node
PathSuffix(run, c) ==
  \E s \in run.state.steps :
    /\ s.nodeId \in s.stack
    /\ \E from \in DOMAIN s.path :
         /\ s.path[from] = s.nodeId
         /\ c = SubSeq(s.path, from, Len(s.path)) \o << s.nodeId >>

StackIsPath(s) == s.stack = { s.path[i] : i \in DOMAIN s.path }

\* C24: every reported cycle is the suffix of the DFS path from the
\* re-entered node followed by that node, a closed walk whose first and last
\* elements are equal, whose other elements are pairwise distinct and whose
\* consecutive pairs are import edges of the graph; at every call of dfs the
\* recursion stack is the set of the nodes on the current path, and it is
\* empty when detection ends
C24_ClosedWalk ==
  \A k \in DetectRuns :
    /\ \A i \in DOMAIN CyclesOf(hist[k]) :
         /\ ClosedWalk(hist[k].call.nodes, CyclesOf(hist[k])[i].cycle)
         /\ PathSuffix(hist[k], CyclesOf(hist[k])[i].cycle)
    /\ \A s \in hist[k].state.steps : StackIsPath(s)
    /\ hist[k].state.recursionStack = {}

C24_Witness ==
  \E k \in DetectRuns :
    /\ \E i \in DOMAIN CyclesOf(hist[k]) : Len(CyclesOf(hist[k])[i].cycle) = 4
    /\ \E s \in hist[k].state.steps : Len(s.path) = 3 /\ s.nodeId \in s.stack

\* ---------------------------------------------------------------------
\* termination of the detection
\* the import list of every node is traversed at most once
TraversedOnce(run) ==
  \A i, j \in DOMAIN run.state.entered :
    i # j => run.state.entered[i] # run.state.entered[j]

\* a call of dfs on a node that is fully visited
Revisit(run, s) ==
  /\ s.nodeId \notin s.stack
  /\ \E t \in run.state.steps : t # s /\ t.nodeId = s.nodeId /\ t.nodeId \notin t.stack

\* the number of import ids of the graph that dfs follows
RECURSIVE Followed(_)
Followed(imports) ==
  IF imports = << >> THEN 0
  ELSE (IF StartsWith(Head(imports), Dot) THEN 1 ELSE 0) + Followed(Tail(imports))

RECURSIVE FollowedEdges(_)
FollowedEdges(nodes) ==
  IF nodes = << >> THEN 0
  ELSE Followed(Head(nodes).imports) + FollowedEdges(Tail(nodes))

\* C25: cycle detection terminates on every finite import graph, with
\* cycles, self-imports and edges to ids that are not nodes: the call has
\* returned after at most one call of dfs per node and per followed import,
\* a node that is fully visited is never explored again, and the import
\* list of each node is traversed at most once
C25_Terminates ==
  /\ pc = "idle" => DetectRuns # {}
  /\ \A k \in DetectRuns :
       /\ TraversedOnce(hist[k])
       /\ Cardinality(hist[k].state.steps)
            <= Len(hist[k].call.nodes) + FollowedEdges(hist[k].call.nodes)
       /\ \A s \in hist[k].state.steps : Revisit(hist[k], s) =>
            \E i \in DOMAIN hist[k].state.entered : hist[k].state.entered[i] = s.nodeId

C25_Witness ==
  \E k \in DetectRuns :
    /\ pc = "idle"
    /\ CyclesOf(hist[k]) # << >>
    /\ \E i \in DOMAIN CyclesOf(hist[k]) : Len(CyclesOf(hist[k])[i].cycle) = 2
    /\ \E i \in DOMAIN hist[k].state.entered : hist[k].state.entered[i] = Missing
    /\ \E s \in hist[k].state.steps : Revisit(hist[k], s)

\* ---------------------------------------------------------------------
\* order of the references
ReferencesOf(run) == run.out.analysis.references

\* the position of a file in the enumeration of the project files
FilePosition(f) == MinOf({ i \in DOMAIN CheckOrder : CheckOrder[i] = f })

\* reference r comes before reference s in the stated order
OrderedPair(r, s) ==
  \/ FilePosition(r.file) < FilePosition(s.file)
  \/ r.file = s.file /\ r.at < s.at

\* C26: the references returned for a target are ordered by the enumeration
\* order of the project files and, within one referencing file, by the
\* position of the referencing declaration in that file, whatever its kind;
\* two scans of the same files for the same target return the same list
C26_ScanOrder ==
  /\ \A k \in CheckRuns :
       \A i, j \in DOMAIN ReferencesOf(hist[k]) :
         i < j => OrderedPair(ReferencesOf(hist[k])[i], ReferencesOf(hist[k])[j])
  /\ \A k, l \in CheckRuns :
       (hist[k].disk = hist[l].disk /\ hist[k].call.filePath = hist[l].call.filePath
          /\ hist[k].call.options.includeTypes = hist[l].call.options.includeTypes)
         => ReferencesOf(hist[k]) = ReferencesOf(hist[l])

----------------------------------------------------------------------------
(* Properties of renameFileOrFolder: the boundary of the renamed directory *)

\* a directory was renamed
DirRenameDone == RenameDone /\ call.source \in pre.dirs

\* reference i of file f is relative and resolved to the renamed directory
\* or to a path inside it
ResolvedInside(f, i) ==
  /\ StartsWith(SpecBefore(f, i), Dot)
  /\ Under(ResolvedBefore(f, i), call.source)

\* reference i of file f resolved to a sibling of the renamed directory
\* whose name begins with the name of the directory
ResolvedToSibling(f, i) ==
  /\ StartsWith(SpecBefore(f, i), Dot)
  /\ StartsWith(ResolvedBefore(f, i), call.source)
  /\ ~Under(ResolvedBefore(f, i), call.source)

\* C27: a rename of directory D rewrites only specifiers that resolve to D
\* or to a path inside D (D followed by a separator): a specifier of a file
\* outside D that resolves elsewhere, also to a sibling whose name begins
\* with the name of D, keeps its text, and a file outside D that holds no
\* specifier resolving to D or inside D is not reported as updated
C27_PrefixBoundary ==
  DirRenameDone =>
    \A f \in ProjectFiles(pre.files) :
      ~StartsWith(f, call.source) =>
        /\ \A i \in DOMAIN pre.text[f] :
             ~ResolvedInside(f, i) => SpecAfter(f, i) = SpecBefore(f, i)
        /\ (\A i \in DOMAIN pre.text[f] : ~ResolvedInside(f, i)) => f \notin updated

----------------------------------------------------------------------------
(* Properties of renameFileOrFolder: the imports of the moved files        *)

\* a file or a directory was moved to a different parent directory
MovedAway == RenameDone /\ Dirname(call.destination) # Dirname(call.source)

\* reference i of the moved file f is relative and resolved to a file that
\* is not moved
ResolvedOutside(f, i) ==
  /\ StartsWith(SpecBefore(f, i), Dot)
  /\ ResolvedBefore(f, i) \in pre.files
  /\ ~Under(ResolvedBefore(f, i), call.source)

\* C28: after a file or a directory is moved to a different parent
\* directory, every relative import of a moved file that resolved to a file
\* outside the moved path resolves to the same file from the new location
\* of the moved file
C28_MovedImportsValid ==
  MovedAway =>
    \A f \in ProjectFiles(pre.files) :
      Under(f, call.source) =>
        \A i \in DOMAIN pre.text[f] :
          ResolvedOutside(f, i) =>
            resolveImportPath(files, dirs, After(f), SpecAfter(f, i)) = ResolvedBefore(f, i)

\* ---------------------------------------------------------------------
\* round trip of a repair
RepairedAt(run, i) == ResultOf(run, i).status = "repaired"

\* C29: for every import reported as repaired, resolving repairedPath from
\* the importing file with the resolver of the repair engine yields exactly
\* selectedFile, also when the directory of the selected file holds a file
\* of the same base name with another extension or when the selected file is
\* an index file
C29_RepairRoundTrip ==
  \A k \in RepairRuns :
    \A i \in DOMAIN hist[k].out.repairedImports :
      RepairedAt(hist[k], i) =>
        repairResolveImportPath(files, dirs, hist[k].call.filePath,
                                ResultOf(hist[k], i).repairedPath)
          = ResultOf(hist[k], i).selectedFile

\* ---------------------------------------------------------------------
\* completeness and soundness of the detection
\* the graph has the followed edge x -> y: an import of y, which begins
\* with '.', written in node x
FollowedEdge(g, x, y) == Edge(g, x, y) /\ StartsWith(y, Dot)

\* the ids reached from the ids of set s by one followed edge
Successors(g, s) ==
  { g[i].imports[m] : <<i, m>> \in
      { p \in (DOMAIN g) \X (1..MaxOut) :
          /\ p[2] \in DOMAIN g[p[1]].imports
          /\ g[p[1]].id \in s
          /\ StartsWith(g[p[1]].imports[p[2]], Dot) } }

\* the ids reached from s by 1..n followed edges
RECURSIVE ReachedFrom(_, _, _)
ReachedFrom(g, s, n) ==
  IF n = 0 THEN {}
  ELSE Successors(g, s) \cup ReachedFrom(g, Successors(g, s), n - 1)

\* the graph of the followed edges contains a directed cycle
HasDirectedCycle(g) ==
  \E i \in DOMAIN g : g[i].id \in ReachedFrom(g, { g[i].id }, Len(g))

\* C30: detectCircularDependencies returns a non-empty list if and only if
\* the graph of the followed edges (imports whose id begins with '.')
\* contains a directed cycle; an edge whose target id does not begin with
\* '.' is never part of a reported cycle
C30_CycleIffReported ==
  \A k \in DetectRuns :
    /\ (CyclesOf(hist[k]) # << >>) <=> HasDirectedCycle(hist[k].call.nodes)
    /\ \A i \in DOMAIN CyclesOf(hist[k]) :
         \A m \in 1..(Len(CyclesOf(hist[k])[i].cycle) - 1) :
           FollowedEdge(hist[k].call.nodes, CyclesOf(hist[k])[i].cycle[m],
                        CyclesOf(hist[k])[i].cycle[m + 1])

\* a graph with a reported cycle of followed edges and, beside it, a cycle
\* through the package node that is made of an edge that is not followed
C30_Witness ==
  \E k \in DetectRuns :
    /\ CyclesOf(hist[k]) # << >>
    /\ HasDirectedCycle(hist[k].call.nodes)
    /\ \E i \in DOMAIN hist[k].call.nodes : hist[k].call.nodes[i].id = External
    /\ Edge(hist[k].call.nodes, NodeIds[1], External)
    /\ \A i \in DOMAIN CyclesOf(hist[k]) :
         \A m \in DOMAIN CyclesOf(hist[k])[i].cycle :
           CyclesOf(hist[k])[i].cycle[m] # External

====
